---- MODULE Spec2Model ----
(***************************************************************************)
(* Model of src/sync.ts: one run of main(), the five remote calls it      *)
(* makes, and the remote playlist those calls read and replace.           *)
(* Strings are sequences of one-character strings, so that length,        *)
(* startsWith and trim are computed on characters as the code does.       *)
(***************************************************************************)
EXTENDS Integers, Sequences, FiniteSets, TLC

\* ------------------------------------------------------------------ bounds
\* Longest items array of a likes response.
MaxLikes == 2
\* Longest remote playlist before the run.
MaxRemote == 2

\* ----------------------------------------------------------- program data
\* src/sync.ts:153 and :219, the literal 'spotify:track:' (14 characters).
TrackPrefix == <<"s","p","o","t","i","f","y",":","t","r","a","c","k",":">>

\* src/sync.ts:428, the literal 14 of uri.length > 14.
MinUriLength == 14

\* src/sync.ts:181, limit=50 of the playlist tracks request.
PlaylistReadLimit == 50

EpisodePrefix == <<"s","p","o","t","i","f","y",":","e","p","i","s","o","d","e",":">>

UriA == TrackPrefix \o <<"a">>
UriB == TrackPrefix \o <<"b">>
UriEpisode == EpisodePrefix \o <<"x">>
\* A uri cut right after the prefix: it starts with the prefix and has length 14.
UriTruncated == TrackPrefix

\* string | null : the value of Deno.env.get, or of a function returning T | null
Null == [isNull |-> TRUE, val |-> <<>>]
Some(v) == [isNull |-> FALSE, val |-> v]

\* One element of a response's items array.
\* uriKind is the shape of item?.track?.uri: "absent" (no track, or no uri),
\* "number" (a uri that is not a string) or "string".
Item(kind, uri) == [uriKind |-> kind, uri |-> uri]
TrackItem(uri) == Item("string", uri)

LikeItems ==
    { TrackItem(UriA), TrackItem(UriB), TrackItem(UriEpisode),
      TrackItem(UriTruncated), Item("absent", <<>>), Item("number", <<>>) }

RemoteItems == { TrackItem(UriA), TrackItem(UriB), TrackItem(UriEpisode) }

SeqsUpTo(S, n) == UNION { [1..k -> S] : k \in 0..n }

\* ------------------------------------------------------------ pure helpers
Min(a, b) == IF a < b THEN a ELSE b

\* String.prototype.startsWith
StartsWith(s, p) == Len(s) >= Len(p) /\ SubSeq(s, 1, Len(p)) = p

IsSpace(c) == c \in {" ", "\t", "\n"}

RECURSIVE TrimStart(_)
TrimStart(s) ==
    IF s # <<>> /\ IsSpace(Head(s)) THEN TrimStart(Tail(s)) ELSE s

RECURSIVE TrimEnd(_)
TrimEnd(s) ==
    IF s # <<>> /\ IsSpace(s[Len(s)]) THEN TrimEnd(SubSeq(s, 1, Len(s) - 1)) ELSE s

\* String.prototype.trim
Trim(s) == TrimEnd(TrimStart(s))

\* !value for a string | undefined: undefined and '' are falsy
Falsy(v) == v.isNull \/ v.val = <<>>

\* Variant of LikesTrackUris: every string uri is kept, whatever its namespace.
RECURSIVE LikesTrackUrisAnyNamespace(_)
LikesTrackUrisAnyNamespace(items) ==
    IF items = <<>> THEN <<>>
    ELSE LET it == Head(items)
             keep == it.uriKind = "string"
         IN  (IF keep THEN <<it.uri>> ELSE <<>>) \o LikesTrackUrisAnyNamespace(Tail(items))

\* getRecentLikes, the loop of src/sync.ts:150-154: keep item?.track?.uri
\* when it is a string that starts with 'spotify:track:'
RECURSIVE LikesTrackUris(_)
LikesTrackUris(items) ==
    IF items = <<>> THEN <<>>
    ELSE LET it == Head(items)
             keep == it.uriKind = "string" /\ StartsWith(it.uri, TrackPrefix)
         IN  (IF keep THEN <<it.uri>> ELSE <<>>) \o LikesTrackUris(Tail(items))

\* Variant of PlaylistTrackUris: every string uri is kept, whatever its namespace.
RECURSIVE PlaylistTrackUrisAnyNamespace(_)
PlaylistTrackUrisAnyNamespace(items) ==
    IF items = <<>> THEN <<>>
    ELSE LET it == Head(items)
             keep == it.uriKind = "string"
         IN  (IF keep THEN <<it.uri>> ELSE <<>>)
                \o PlaylistTrackUrisAnyNamespace(Tail(items))

\* getPlaylistTracks, the loop of src/sync.ts:216-220
RECURSIVE PlaylistTrackUris(_)
PlaylistTrackUris(items) ==
    IF items = <<>> THEN <<>>
    ELSE LET it == Head(items)
             keep == it.uriKind = "string" /\ StartsWith(it.uri, TrackPrefix)
         IN  (IF keep THEN <<it.uri>> ELSE <<>>) \o PlaylistTrackUris(Tail(items))

\* Variant of ValidTracks: uri.length >= 14.
RECURSIVE ValidTracksAtLeast(_)
ValidTracksAtLeast(uris) ==
    IF uris = <<>> THEN <<>>
    ELSE (IF Len(Head(uris)) >= MinUriLength THEN <<Head(uris)>> ELSE <<>>)
         \o ValidTracksAtLeast(Tail(uris))

\* src/sync.ts:428  trackUris.filter(uri => uri.length > 14)
RECURSIVE ValidTracks(_)
ValidTracks(uris) ==
    IF uris = <<>> THEN <<>>
    ELSE (IF Len(Head(uris)) > MinUriLength THEN <<Head(uris)>> ELSE <<>>)
         \o ValidTracks(Tail(uris))

\* JSON.stringify of a string: quotes around it, '"' and '\' escaped
RECURSIVE JSONEscape(_)
JSONEscape(s) ==
    IF s = <<>> THEN <<>>
    ELSE (IF Head(s) \in {"\"", "\\"} THEN <<"\\", Head(s)>> ELSE <<Head(s)>>)
         \o JSONEscape(Tail(s))

JSONString(s) == <<"\"">> \o JSONEscape(s) \o <<"\"">>

RECURSIVE JSONElements(_)
JSONElements(arr) ==
    IF arr = <<>> THEN <<>>
    ELSE IF Len(arr) = 1 THEN JSONString(arr[1])
    ELSE JSONString(Head(arr)) \o <<",">> \o JSONElements(Tail(arr))

\* JSON.stringify of a string[]
JSONStringify(arr) == <<"[">> \o JSONElements(arr) \o <<"]">>

\* ------------------------------------------------------- the remote service
\* Status codes a response can carry.
Statuses == {200, 201, 401, 403, 404, 500}

\* How an awaited fetch settles: it rejects with AbortError (the timer fired),
\* rejects with another error, or resolves with a response.
FetchOutcomes ==
    { [kind |-> "timeout", status |-> 0], [kind |-> "network", status |-> 0] }
    \cup { [kind |-> "response", status |-> st] : st \in Statuses }

\* The fetches whose code looks at nothing of the status but response.ok
\* (all but updatePlaylist's) are answered with one 2xx or one non-2xx status.
OkOrNotOutcomes == { o \in FetchOutcomes : o.kind = "response" => o.status \in {200, 500} }

\* Variant of Ok: only 200 counts as a success.
OkOnly200(status) == status = 200

\* Response.ok
Ok(status) == status \in 200..299

\* What response.json() gives for the token endpoint: it throws ("malformed")
\* or yields a value; shape is "null" for a value without properties.
TokenBody(parse, shape, tokenKind, token) ==
    [parse |-> parse, shape |-> shape, tokenKind |-> tokenKind, token |-> token]

TokenBodies ==
    { TokenBody("malformed", "null", "absent", <<>>),
      TokenBody("ok", "null", "absent", <<>>),
      TokenBody("ok", "object", "absent", <<>>),
      TokenBody("ok", "object", "number", <<>>),
      TokenBody("ok", "object", "string", <<>>),
      TokenBody("ok", "object", "string", <<" ">>),
      TokenBody("ok", "object", "string", <<"t", "k">>) }

\* What response.json() gives for an endpoint that lists items.
ItemsBody(parse, shape, itemsKind, items) ==
    [parse |-> parse, shape |-> shape, itemsKind |-> itemsKind, items |-> items]

BadItemsBodies ==
    { ItemsBody("malformed", "null", "absent", <<>>),
      ItemsBody("ok", "null", "absent", <<>>),
      ItemsBody("ok", "object", "absent", <<>>),
      ItemsBody("ok", "object", "notArray", <<>>) }

LikesBodies ==
    BadItemsBodies
    \cup { ItemsBody("ok", "object", "array", its) : its \in SeqsUpTo(LikeItems, MaxLikes) }

\* The playlist tracks endpoint lists the first limit entries of the playlist.
PlaylistBodies(remote) ==
    BadItemsBodies
    \cup { ItemsBody("ok", "object", "array",
                     SubSeq(remote, 1, Min(Len(remote), PlaylistReadLimit))) }

\* The playlist after PUT {uris} took effect: exactly the tracks of the body.
Replaced(uris) == [i \in 1..Len(uris) |-> TrackItem(uris[i])]

\* ------------------------------------------------- the functions' results
\* Variant of MissingCredentials: the refresh token is not tested.
MissingCredentialsIdAndSecret(e) ==
    Falsy(e.SPOTIFY_CLIENT_ID) \/ Falsy(e.SPOTIFY_CLIENT_SECRET)

\* src/sync.ts:17  !clientId || !clientSecret || !refreshToken
MissingCredentials(e) ==
    Falsy(e.SPOTIFY_CLIENT_ID) \/ Falsy(e.SPOTIFY_CLIENT_SECRET)
        \/ Falsy(e.SPOTIFY_REFRESH_TOKEN)

\* Variant of PlaylistIdMissing: the identifier is not trimmed before the test.
PlaylistIdMissingUntrimmed(e) ==
    Falsy(e.PLAYLIST_ID)

\* src/sync.ts:169, 237, 306, 362  !playlistId || playlistId.trim() === ''
PlaylistIdMissing(e) ==
    Falsy(e.PLAYLIST_ID) \/ Trim(e.PLAYLIST_ID.val) = <<>>

\* Variant of AccessTokenOf: the token is not trimmed before the test.
AccessTokenOfUntrimmed(data) ==
    IF data.parse = "malformed" THEN Null
    ELSE LET tok == IF data.shape = "object" /\ data.tokenKind = "string"
                    THEN Some(data.token) ELSE Null
         IN  IF Falsy(tok) THEN Null ELSE tok

\* getAccessToken, src/sync.ts:61-82: the value returned once the body is read
AccessTokenOf(data) ==
    IF data.parse = "malformed" THEN Null
    ELSE LET tok == IF data.shape = "object" /\ data.tokenKind = "string"
                    THEN Some(data.token) ELSE Null
         IN  IF Falsy(tok) \/ Trim(tok.val) = <<>> THEN Null ELSE tok

\* Variant of RecentLikesOf: a body without an items array gives an empty list.
RecentLikesOfDefaultEmpty(data) ==
    IF data.parse = "malformed" THEN Null
    ELSE IF ~(data.shape = "object" /\ data.itemsKind = "array") THEN Some(<<>>)
    ELSE Some(LikesTrackUris(data.items))

\* Variant of RecentLikesOf: a list with nothing to keep is a failure.
RecentLikesOfEmptyIsNull(data) ==
    IF data.parse = "malformed" THEN Null
    ELSE IF ~(data.shape = "object" /\ data.itemsKind = "array") THEN Null
    ELSE IF LikesTrackUris(data.items) = <<>> THEN Null
    ELSE Some(LikesTrackUris(data.items))

\* getRecentLikes, src/sync.ts:136-156: the value returned once the body is read
RecentLikesOf(data) ==
    IF data.parse = "malformed" THEN Null
    ELSE IF ~(data.shape = "object" /\ data.itemsKind = "array") THEN Null
    ELSE Some(LikesTrackUris(data.items))

\* Variant of PlaylistTracksOf: a body without an items array reads as an
\* empty playlist.
PlaylistTracksOfDefaultEmpty(data) ==
    IF data.parse = "malformed" THEN Null
    ELSE IF ~(data.shape = "object" /\ data.itemsKind = "array") THEN Some(<<>>)
    ELSE Some(PlaylistTrackUris(data.items))

\* getPlaylistTracks, src/sync.ts:202-223
PlaylistTracksOf(data) ==
    IF data.parse = "malformed" THEN Null
    ELSE IF ~(data.shape = "object" /\ data.itemsKind = "array") THEN Null
    ELSE Some(PlaylistTrackUris(data.items))

\* The elements of a sequence, order and repetition forgotten.
Range(f) == { f[i] : i \in DOMAIN f }

\* Variant of NeedsUpdate: the two arrays compared by reference, never equal.
NeedsUpdateByReference(current, valid) == TRUE

\* Variant of NeedsUpdate: the two arrays compared as collections, order ignored.
NeedsUpdateUnordered(current, valid) ==
    current.isNull \/ Len(current.val) # Len(valid) \/ Range(current.val) # Range(valid)

\* Variant of NeedsUpdate: an unknown playlist counts as unchanged.
NeedsUpdateUnlessNull(current, valid) ==
    ~current.isNull /\ JSONStringify(current.val) # JSONStringify(valid)

\* src/sync.ts:448
NeedsUpdate(current, valid) ==
    current.isNull \/ JSONStringify(current.val) # JSONStringify(valid)

\* Variant of Decision: an empty likes list is reported like a failed fetch.
DecisionEmptyIsFailure(likes, current) ==
    IF likes.isNull THEN "likesFailed"
    ELSE LET valid == ValidTracks(likes.val)
         IN  IF Len(valid) # Len(likes.val) THEN "invalidUris"
             ELSE IF Len(valid) = 0 THEN "likesFailed"
             ELSE IF NeedsUpdate(current, valid) THEN "update"
             ELSE "upToDate"

\* Variant of Decision: no test for an empty likes list.
DecisionNoEmptyTest(likes, current) ==
    IF likes.isNull THEN "likesFailed"
    ELSE LET valid == ValidTracks(likes.val)
         IN  IF Len(valid) # Len(likes.val) THEN "invalidUris"
             ELSE IF NeedsUpdate(current, valid) THEN "update"
             ELSE "upToDate"

\* Variant of Decision: the references that fail the length test are dropped
\* and the run goes on with the others.
DecisionNoLengthTest(likes, current) ==
    IF likes.isNull THEN "likesFailed"
    ELSE LET valid == ValidTracks(likes.val)
         IN  IF Len(valid) = 0 THEN "noTracks"
             ELSE IF NeedsUpdate(current, valid) THEN "update"
             ELSE "upToDate"

\* Variant of Decision: the length test is made only once the playlist has
\* been found equal to the references that pass it.
DecisionValidatedAfterWrite(likes, current) ==
    IF likes.isNull THEN "likesFailed"
    ELSE LET valid == ValidTracks(likes.val)
         IN  IF Len(valid) = 0 /\ Len(likes.val) = 0 THEN "noTracks"
             ELSE IF Len(valid) # 0 /\ NeedsUpdate(current, valid) THEN "update"
             ELSE IF Len(valid) # Len(likes.val) THEN "invalidUris"
             ELSE "upToDate"

\* main, src/sync.ts:423-459: what main does with the two results of Promise.all
Decision(likes, current) ==
    IF likes.isNull THEN "likesFailed"
    ELSE LET valid == ValidTracks(likes.val)
         IN  IF Len(valid) # Len(likes.val) THEN "invalidUris"
             ELSE IF Len(valid) = 0 THEN "noTracks"
             ELSE IF NeedsUpdate(current, valid) THEN "update"
             ELSE "upToDate"

\* -------------------------------------------------------------------- state
VARIABLES
    env,            \* Deno.env: the configuration, fixed for the run
    remoteTracks,   \* the entries of the target playlist on the service
    pc,             \* where main() is: the await it is suspended at, or "done"
    exitCode,       \* the argument of Deno.exit, NotExited before
    accessToken,    \* main: const accessToken
    likesPc,        \* where getRecentLikes is
    trackUris,      \* main: trackUris, the result of getRecentLikes
    playlistPc,     \* where getPlaylistTracks is
    currentTracks,  \* main: currentTracks, the result of getPlaylistTracks
    validTracks,    \* main: validTracks
    needsUpdate,    \* main: needsUpdate
    updateSuccess,  \* main: updateSuccess, Null while updatePlaylist has not returned
    requests,       \* every fetch issued so far, in order
    calls,          \* every call of updatePlaylist so far, with its track list
    outcome,        \* how each remote operation ended ("none" while it has not)
    replies,        \* what the service answered to each operation's fetch
    consoleError,   \* what updatePlaylist has written with console.error
    previousRun,    \* the run of main that ended before this one, if any
    remoteDetails,  \* the name and the description of the target playlist on the service
    remoteChanged,  \* what of the playlist on the service the run has changed so far
    detailsData,    \* verify-playlist: the value isPlaylistDetails is given
    detailsValid    \* verify-playlist: what isPlaylistDetails returned, Null before

vars == << env, remoteTracks, pc, exitCode, accessToken, likesPc, trackUris,
           playlistPc, currentTracks, validTracks, needsUpdate, updateSuccess,
           requests, calls, outcome, replies, consoleError, previousRun,
           remoteDetails, remoteChanged, detailsData, detailsValid >>

NotExited == 0 - 1

Operations ==
    { "getAccessToken", "getRecentLikes", "getPlaylistTracks", "updatePlaylist",
      "updatePlaylistTitle", "updatePlaylistDescription" }

CredentialValues == { Null, Some(<<>>), Some(<<"c">>) }

\* A character outside Latin-1, the euro sign, written by its code point.
NonLatin1Char == "U+20AC"

\* The client id and the client secret may also hold such a character.
ClientCredentialValues == CredentialValues \cup { Some(<<NonLatin1Char>>) }

\* btoa throws InvalidCharacterError when a character of its argument has a
\* code above 255 (src/sync.ts:25).
BtoaThrows(str) == \E k \in DOMAIN str : str[k] = NonLatin1Char
PlaylistIdValues == { Null, Some(<<>>), Some(<<" ">>), Some(<<"p">>) }
TrackCountValues ==
    { Null, Some(<<>>), Some(<<"a", "b", "c">>), Some(<<"0">>), Some(<<"-", "5">>),
      Some(<<"1">>), Some(<<"3", "0">>), Some(<<"5", "0">>), Some(<<"1", "0", "0">>),
      Some(<<"3", ".", "7">>), Some(<<"1", "2", "a", "b", "c">>) }

\* A reading of the clock, in UTC.
Instant(y, mo, d, h, mi, sec, ms) ==
    [year |-> y, month |-> mo, day |-> d, hour |-> h, minute |-> mi,
     second |-> sec, ms |-> ms]

NoInstant == Instant(0, 0, 0, 0, 0, 0, 0)

\* The readings new Date() can give.
Instants == { Instant(2026, 1, 11, 15, 0, 0, 0), Instant(2025, 12, 31, 23, 59, 59, 999) }

DigitChars == <<"0", "1", "2", "3", "4", "5", "6", "7", "8", "9">>

\* n in decimal, padded with zeros to width digits
RECURSIVE Padded(_, _)
Padded(n, width) ==
    IF width = 0 THEN <<>>
    ELSE Padded(n \div 10, width - 1) \o << DigitChars[(n % 10) + 1] >>

\* String(n) for a natural number
RECURSIVE Decimal(_)
Decimal(n) ==
    IF n < 10 THEN << DigitChars[n + 1] >>
    ELSE Decimal(n \div 10) \o << DigitChars[(n % 10) + 1] >>

\* number: NaN or an integer
NaN == [isNaN |-> TRUE, val |-> 0]
Num(n) == [isNaN |-> FALSE, val |-> n]

IsDigit(c) == \E k \in 1..Len(DigitChars) : DigitChars[k] = c
DigitValue(c) == (CHOOSE k \in 1..Len(DigitChars) : DigitChars[k] = c) - 1

\* the longest prefix of str made of decimal digits
RECURSIVE DigitsPrefix(_)
DigitsPrefix(str) ==
    IF str = <<>> \/ ~IsDigit(Head(str)) THEN <<>>
    ELSE << Head(str) >> \o DigitsPrefix(Tail(str))

RECURSIVE DigitsValue(_)
DigitsValue(ds) ==
    IF ds = <<>> THEN 0
    ELSE 10 * DigitsValue(SubSeq(ds, 1, Len(ds) - 1)) + DigitValue(ds[Len(ds)])

\* parseInt(str, 10): leading white space is skipped, a sign is taken, then
\* the longest run of digits is read and whatever follows is ignored; NaN if
\* there is no digit there
ParseInt(str) ==
    LET s == TrimStart(str)
        signed == s # <<>> /\ Head(s) \in {"+", "-"}
        negative == s # <<>> /\ Head(s) = "-"
        ds == DigitsPrefix(IF signed THEN Tail(s) ELSE s)
    IN  IF ds = <<>> THEN NaN
        ELSE Num(IF negative THEN 0 - DigitsValue(ds) ELSE DigitsValue(ds))

\* src/sync.ts:94,96  the count used when TRACK_COUNT gives none
DefaultTrackCount == 50
\* src/sync.ts:97-99  the most the likes endpoint serves in one page
MaxTrackCount == 50

\* Variant of TrackCount: a count over the limit is not brought down.
TrackCountUnclamped(e) ==
    LET trackCountEnv == e.TRACK_COUNT
        parsed == IF Falsy(trackCountEnv) THEN Num(DefaultTrackCount)
                  ELSE ParseInt(trackCountEnv.val)
    IN  IF parsed.isNaN \/ parsed.val < 1 THEN DefaultTrackCount ELSE parsed.val

\* getRecentLikes, src/sync.ts:93-100: the number of likes to ask for
TrackCount(e) ==
    LET trackCountEnv == e.TRACK_COUNT
        parsed == IF Falsy(trackCountEnv) THEN Num(DefaultTrackCount)
                  ELSE ParseInt(trackCountEnv.val)
        trackCount == IF parsed.isNaN \/ parsed.val < 1 THEN DefaultTrackCount
                      ELSE parsed.val
    IN  IF trackCount > MaxTrackCount THEN MaxTrackCount ELSE trackCount

\* Date.prototype.toISOString: YYYY-MM-DDTHH:mm:ss.sssZ
ToISOString(t) ==
    Padded(t.year, 4) \o <<"-">> \o Padded(t.month, 2) \o <<"-">> \o Padded(t.day, 2)
        \o <<"T">> \o Padded(t.hour, 2) \o <<":">> \o Padded(t.minute, 2)
        \o <<":">> \o Padded(t.second, 2) \o <<".">> \o Padded(t.ms, 3) \o <<"Z">>

\* String.prototype.replace with two one-character strings: the first
\* occurrence of a becomes b
RECURSIVE ReplaceFirst(_, _, _)
ReplaceFirst(str, a, b) ==
    IF str = <<>> THEN <<>>
    ELSE IF Head(str) = a THEN <<b>> \o Tail(str)
    ELSE << Head(str) >> \o ReplaceFirst(Tail(str), a, b)

\* String.prototype.substring(0, n)
Substring0(str, n) == SubSeq(str, 1, Min(n, Len(str)))

\* src/sync.ts:462  `LAST${validTracks.length}LIKED`
PlaylistTitle(n) == <<"L", "A", "S", "T">> \o Decimal(n) \o <<"L", "I", "K", "E", "D">>

\* src/sync.ts:468, the label of the description
DescriptionLabel == <<"C", "h", "e", "c", "k", "e", "d", ":", " ">>

\* src/sync.ts:468
\* `Checked: ${new Date().toISOString().replace('T', ' ').substring(0, 19)} UTC`
CheckTimestamp(now) ==
    DescriptionLabel \o Substring0(ReplaceFirst(ToISOString(now), "T", " "), 19)
        \o <<" ", "U", "T", "C">>

\* A fetch: the endpoint, the bearer token, and the body of a PUT; text is the
\* name or the description of the body, at the reading of the clock it shows.
Request(ep, token, uris, field, count) ==
    [ep |-> ep, token |-> token, uris |-> uris, field |-> field, count |-> count,
     text |-> <<>>, at |-> NoInstant]

TokenRequest == Request("token", Null, <<>>, "none", 0)
\* src/sync.ts:109  GET /v1/me/tracks?limit=${trackCount}
LikesRequest(token, trackCount) ==
    [Request("likes", token, <<>>, "none", trackCount)
        EXCEPT !.text = <<"l", "i", "m", "i", "t", "=">> \o Decimal(trackCount)]
\* Variant of PlaylistTracksRequest: the request carries no token.
PlaylistTracksRequestNoToken(token) == Request("playlistTracks", Null, <<>>, "none", 0)
\* src/sync.ts:181-185  GET /v1/playlists/<id>/tracks
PlaylistTracksRequest(token) == Request("playlistTracks", token, <<>>, "none", 0)
\* src/sync.ts:249-258  PUT /v1/playlists/<id>/tracks  {uris: trackUris}
ReplaceTracksRequest(token, uris) == Request("replaceTracks", token, uris, "uris", 0)
\* src/sync.ts:318-327  PUT /v1/playlists/<id>  {name: `LAST${n}LIKED`}
TitleRequest(token, n) ==
    [Request("details", token, <<>>, "name", n) EXCEPT !.text = PlaylistTitle(n)]
\* src/sync.ts:374-383  PUT /v1/playlists/<id>  {description}
DescriptionRequest(token, now) ==
    [Request("details", token, <<>>, "description", 0)
        EXCEPT !.text = CheckTimestamp(now), !.at = now]

\* No body has been read.
NoData == [parse |-> "none"]

\* What an operation's fetch got: how it settled, the status of the response,
\* and the value response.json() gave; kind is "none" while it has not settled.
Reply(kind, status, data) == [kind |-> kind, status |-> status, data |-> data]

NoReply == Reply("none", 0, NoData)

\* How a settled fetch is classified.
Category(o) ==
    IF o.kind # "response" THEN o.kind
    ELSE IF Ok(o.status) THEN "ok" ELSE "status"

\* How a body that was read is classified by the two readers.
BodyCategory(data) ==
    IF data.parse = "malformed" THEN "malformed"
    ELSE IF ~(data.shape = "object" /\ data.itemsKind = "array") THEN "structure"
    ELSE "ok"

\* What response.json() gives for the body of an error response: it throws
\* ("malformed"), or gives a value whose error.message is absent (Null) or is
\* a string.
ErrorBody(parse, message) == [parse |-> parse, message |-> message]

ErrorBodies ==
    { ErrorBody("malformed", Null), ErrorBody("ok", Null),
      ErrorBody("ok", Some(<<"m">>)) }

\* A line written with console.error: its fixed text and what is interpolated.
Message(text, detail, status) == [text |-> text, detail |-> detail, status |-> status]

\* updatePlaylist, src/sync.ts:236-240
NotConfiguredMessage == Message("PLAYLIST_ID not configured", Null, 0)

\* updatePlaylist, src/sync.ts:259-267: the fetch rejected
RejectedMessage(kind) ==
    Message(IF kind = "timeout" THEN "Update playlist failed: request timeout"
            ELSE "Update playlist failed: network error", Null, 0)

\* updatePlaylist, src/sync.ts:270-286: the message for a non-2xx response,
\* once its body has been read or reading it has thrown
StatusMessage(status, data) ==
    IF data.parse = "malformed" THEN Message("Update playlist failed: ", Null, status)
    ELSE LET errorMsg == IF data.message.isNull
                         THEN <<"u", "n", "k", "n", "o", "w", "n">>
                         ELSE data.message.val
         IN  IF status = 404 THEN Message("Update playlist failed: Playlist not found", Null, 0)
             ELSE IF status = 403
                  THEN Message("Update playlist failed: Permission denied", Null, 0)
             ELSE IF status = 401
                  THEN Message("Update playlist failed: Authentication failed", Null, 0)
             ELSE Message("Update playlist failed: ", Some(errorMsg), status)

\* A run of main that has ended: its exit status, what the likes endpoint
\* answered to it and what updatePlaylist returned to it.
PreviousRun(code, likes, success) ==
    [ran |-> TRUE, exitCode |-> code, likes |-> likes, updateSuccess |-> success]

NoPreviousRun ==
    [ran |-> FALSE, exitCode |-> NotExited, likes |-> NoReply, updateSuccess |-> Null]

\* The previous run read the list of likes from a 2xx response.
ReadLikes(prev) ==
    /\ prev.ran
    /\ prev.likes.kind = "response"
    /\ Ok(prev.likes.status)
    /\ prev.likes.data.parse = "ok"
    /\ prev.likes.data.shape = "object"
    /\ prev.likes.data.itemsKind = "array"

\* Variant of LikesBodiesNow: the likes have changed since the previous run.
LikesBodiesChanged(prev) == LikesBodies

\* What the likes endpoint can answer now.  The user's likes do not change
\* between a run and the one that follows it at once: when the previous run
\* read the list, this run is given the same list, or a body it cannot use.
LikesBodiesNow(prev) ==
    IF ReadLikes(prev) THEN BadItemsBodies \cup { prev.likes.data } ELSE LikesBodies

\* ------------------------------------------------- verify-playlist: the guard
\* The values response.json() and the tests give, as JavaScript sees them.
JsNull == [type |-> "null"]
JsUndefined == [type |-> "undefined"]
JsBoolean(b) == [type |-> "boolean", bool |-> b]
JsNumber(n) == [type |-> "number", num |-> n]
JsString(str) == [type |-> "string", str |-> str]
JsArray(elems) == [type |-> "array", elems |-> elems]
\* props maps the names of the own properties to their values
JsObject(props) == [type |-> "object", props |-> props]

\* typeof v: null and arrays are objects
TypeOf(v) == IF v.type \in { "null", "array" } THEN "object" ELSE v.type

\* v is truthy: !v is false
Truthy(v) ==
    CASE v.type \in { "null", "undefined" } -> FALSE
      [] v.type = "boolean" -> v.bool
      [] v.type = "number" -> v.num # 0
      [] v.type = "string" -> v.str # <<>>
      [] OTHER -> TRUE

\* obj[key] for a property name the prototypes do not have: undefined unless
\* obj is an object with that own property
Get(obj, key) ==
    IF obj.type = "object" /\ key \in DOMAIN obj.props THEN obj.props[key]
    ELSE JsUndefined

\* Variant of IsPlaylistDetails: tracks is tested, its total is not.
IsPlaylistDetailsTotalUntested(data) ==
    IF ~Truthy(data) \/ TypeOf(data) # "object" THEN FALSE
    ELSE IF TypeOf(Get(data, "name")) # "string" THEN FALSE
    ELSE IF /\ Get(data, "description").type # "null"
            /\ Get(data, "description").type # "undefined"
            /\ TypeOf(Get(data, "description")) # "string" THEN FALSE
    ELSE IF ~Truthy(Get(data, "tracks")) \/ TypeOf(Get(data, "tracks")) # "object"
    THEN FALSE
    ELSE TRUE

\* src/verify-playlist.ts:17-26
IsPlaylistDetails(data) ==
    IF ~Truthy(data) \/ TypeOf(data) # "object" THEN FALSE
    ELSE IF TypeOf(Get(data, "name")) # "string" THEN FALSE
    ELSE IF /\ Get(data, "description").type # "null"
            /\ Get(data, "description").type # "undefined"
            /\ TypeOf(Get(data, "description")) # "string" THEN FALSE
    ELSE IF ~Truthy(Get(data, "tracks")) \/ TypeOf(Get(data, "tracks")) # "object"
    THEN FALSE
    ELSE IF TypeOf(Get(Get(data, "tracks"), "total")) # "number" THEN FALSE
    ELSE TRUE

\* Marks a property an object does not have.
Absent == [type |-> "absent"]

\* The object with the properties name, description and tracks, less those
\* given as Absent.
DetailsObject(name, description, tracks) ==
    LET given == [k \in { "name", "description", "tracks" } |->
                    CASE k = "name" -> name
                      [] k = "description" -> description
                      [] k = "tracks" -> tracks]
        own == { k \in DOMAIN given : given[k] # Absent }
    IN  JsObject([k \in own |-> given[k]])

\* The object {total: total}, {} when total is Absent.
TracksObject(total) ==
    JsObject([k \in (IF total = Absent THEN {} ELSE { "total" }) |-> total])

NameValues ==
    { Absent, JsNull, JsNumber(1), JsString(<<>>), JsString(PlaylistTitle(2)) }

DescriptionValues ==
    { Absent, JsNull, JsUndefined, JsNumber(0), JsBoolean(FALSE), JsString(<<>>),
      JsString(DescriptionLabel) }

TracksValues ==
    { Absent, JsNull, JsNumber(5), JsString(<<"t">>), JsArray(<<>>),
      TracksObject(Absent), TracksObject(JsNull), TracksObject(JsString(<<"2">>)),
      TracksObject(JsNumber(0)), TracksObject(JsNumber(2)) }

\* The values isPlaylistDetails is given: the values that are no plain
\* object, and the objects over the three properties.
DetailsInputs ==
    { JsNull, JsUndefined, JsBoolean(FALSE), JsBoolean(TRUE), JsNumber(0), JsNumber(1),
      JsString(<<>>), JsString(<<"x">>), JsArray(<<>>), JsArray(<<JsNumber(1)>>) }
    \cup { DetailsObject(n, d, t) :
               n \in NameValues, d \in DescriptionValues, t \in TracksValues }

\* verify-playlist is not running.
NotVerifying ==
    /\ detailsData = JsUndefined
    /\ detailsValid = Null

\* The name and the description of a playlist on the service.
RemoteDetails(name, description) == [name |-> name, description |-> description]

\* The target playlist before the script has ever written its details.
InitialDetails == RemoteDetails(<<"M", "i", "x">>, <<>>)

\* The run has changed nothing of the playlist on the service.
NothingChanged == [tracks |-> FALSE, name |-> FALSE, description |-> FALSE]

\* The service when a run starts: the details are the initial ones.
ServiceAtStart ==
    /\ remoteDetails = InitialDetails
    /\ remoteChanged = NothingChanged

\* The step of the service is recorded: what it has changed of the playlist.
ServiceChanged ==
    remoteChanged' =
        [tracks |-> remoteChanged.tracks \/ remoteTracks' # remoteTracks,
         name |-> remoteChanged.name \/ remoteDetails'.name # remoteDetails.name,
         description |-> remoteChanged.description
                            \/ remoteDetails'.description # remoteDetails.description]

\* What a PUT of one of the details leaves on the service once its fetch has
\* settled as o: a 2xx answer says it was applied, another answer that it was
\* not, and a request that timed out or broke may or may not have been applied.
DetailsWritten(o, field, text) ==
    \E applied \in BOOLEAN :
        /\ (o.kind = "response") => (applied = Ok(o.status))
        /\ remoteDetails' = IF applied THEN [remoteDetails EXCEPT ![field] = text]
                            ELSE remoteDetails

\* The process when main is called: nothing has run yet.
Started ==
    /\ pc = "main"
    /\ exitCode = NotExited
    /\ accessToken = Null
    /\ likesPc = "idle"
    /\ trackUris = Null
    /\ playlistPc = "idle"
    /\ currentTracks = Null
    /\ validTracks = <<>>
    /\ needsUpdate = FALSE
    /\ updateSuccess = Null
    /\ requests = <<>>
    /\ calls = <<>>
    /\ outcome = [op \in Operations |-> "none"]
    /\ replies = [op \in Operations |-> NoReply]
    /\ consoleError = <<>>

\* Any configuration of the credentials and of the playlist, TRACK_COUNT left
\* unset, and any playlist on the service.
Init ==
    /\ env \in [ SPOTIFY_CLIENT_ID : ClientCredentialValues,
                 SPOTIFY_CLIENT_SECRET : ClientCredentialValues,
                 SPOTIFY_REFRESH_TOKEN : CredentialValues,
                 PLAYLIST_ID : PlaylistIdValues,
                 TRACK_COUNT : { Null } ]
    /\ remoteTracks \in SeqsUpTo(RemoteItems, MaxRemote)
    /\ previousRun = NoPreviousRun
    /\ Started
    /\ ServiceAtStart
    /\ NotVerifying

\* Any value of TRACK_COUNT, the rest of the configuration complete (the
\* client secret may hold a character btoa rejects) and the playlist on the
\* service empty.
InitTrackCount ==
    /\ env \in [ SPOTIFY_CLIENT_ID : { Some(<<"c">>) },
                 SPOTIFY_CLIENT_SECRET : { Some(<<"c">>), Some(<<NonLatin1Char>>) },
                 SPOTIFY_REFRESH_TOKEN : { Some(<<"c">>) },
                 PLAYLIST_ID : { Some(<<"p">>) },
                 TRACK_COUNT : TrackCountValues ]
    /\ remoteTracks = <<>>
    /\ previousRun = NoPreviousRun
    /\ Started
    /\ ServiceAtStart
    /\ NotVerifying

\* The fetch of op settled as o.
Settled(op, o) == replies' = [replies EXCEPT ![op] = Reply(o.kind, o.status, NoData)]

\* The body of op's response was read as data.
Read(op, data) == replies' = [replies EXCEPT ![op].data = data]

\* Deno.exit(code): the process ends, nothing of main runs after it
Exit(code) ==
    /\ pc' = "done"
    /\ exitCode' = code

Ended(op, how) == outcome' = [outcome EXCEPT ![op] = how]

\* ------------------------------------------------------------------ actions
\* main() up to its first await: getAccessToken checks the credentials,
\* encodes them and sends the token request (src/sync.ts:408-410, 13-38); an
\* error thrown by btoa rejects main().
Main ==
    /\ pc = "main"
    /\ IF MissingCredentials(env)
       THEN /\ Ended("getAccessToken", "notConfigured")
            /\ Exit(1)
            /\ UNCHANGED requests
       ELSE IF BtoaThrows(env.SPOTIFY_CLIENT_ID.val \o <<":">> \o env.SPOTIFY_CLIENT_SECRET.val)
       THEN /\ pc' = "catch"
            /\ UNCHANGED << exitCode, outcome, requests >>
       ELSE /\ requests' = Append(requests, TokenRequest)
            /\ pc' = "getAccessToken"
            /\ UNCHANGED << exitCode, outcome >>
    /\ UNCHANGED << env, previousRun, remoteDetails, remoteChanged, detailsData,
                    detailsValid, consoleError, remoteTracks, accessToken, likesPc,
                    trackUris, playlistPc, currentTracks, validTracks, needsUpdate,
                    updateSuccess, calls, replies >>

\* Variant of MainCatch: the rejection of main() is not handled.
MainCatchMissing ==
    /\ pc = "catch"
    /\ pc' = "uncaught"
    /\ UNCHANGED << env, previousRun, remoteDetails, remoteChanged, detailsData,
                    detailsValid, consoleError, remoteTracks, exitCode, accessToken,
                    likesPc, trackUris, playlistPc, currentTracks, validTracks,
                    needsUpdate, updateSuccess, requests, calls, outcome, replies >>

\* main() rejected: the catch of the entry point exits 1 (src/sync.ts:476-480).
MainCatch ==
    /\ pc = "catch"
    /\ Exit(1)
    /\ UNCHANGED << env, previousRun, remoteDetails, remoteChanged, detailsData,
                    detailsValid, consoleError, remoteTracks, accessToken, likesPc,
                    trackUris, playlistPc, currentTracks, validTracks, needsUpdate,
                    updateSuccess, requests, calls, outcome, replies >>

\* The token fetch settles (src/sync.ts:39-59, 411-414).
GetAccessTokenFetch ==
    /\ pc = "getAccessToken"
    /\ \E o \in OkOrNotOutcomes :
         /\ Settled("getAccessToken", o)
         /\ IF o.kind # "response"
            THEN /\ Ended("getAccessToken", o.kind)
                 /\ Exit(1)
            ELSE /\ pc' = IF Ok(o.status) THEN "getAccessToken_json"
                          ELSE "getAccessToken_error"
                 /\ UNCHANGED << exitCode, outcome >>
    /\ UNCHANGED << env, previousRun, remoteDetails, remoteChanged, detailsData,
                    detailsValid, consoleError, remoteTracks, accessToken, likesPc,
                    trackUris, playlistPc, currentTracks, validTracks, needsUpdate,
                    updateSuccess, requests, calls >>

\* Variant of GetAccessTokenError: main does not test accessToken.
GetAccessTokenErrorUntested ==
    /\ pc = "getAccessToken_error"
    /\ Ended("getAccessToken", "status")
    /\ likesPc' = "fetch"
    /\ requests' = Append(requests, LikesRequest(accessToken, TrackCount(env)))
    /\ pc' = "Promise_all"
    /\ UNCHANGED << env, previousRun, remoteDetails, remoteChanged, detailsData,
                    detailsValid, consoleError, remoteTracks, exitCode, accessToken,
                    trackUris, playlistPc, currentTracks, validTracks, needsUpdate,
                    updateSuccess, calls, replies >>

\* The body of a non-2xx token response has been read, or reading it threw
\* (src/sync.ts:50-59, 411-414).
GetAccessTokenError ==
    /\ pc = "getAccessToken_error"
    /\ Ended("getAccessToken", "status")
    /\ Exit(1)
    /\ UNCHANGED << env, previousRun, remoteDetails, remoteChanged, detailsData,
                    detailsValid, consoleError, remoteTracks, accessToken, likesPc,
                    trackUris, playlistPc, currentTracks, validTracks, needsUpdate,
                    updateSuccess, requests, calls, replies >>

\* The body of the token response has been read (src/sync.ts:61-82); with a
\* token, main starts getRecentLikes and then getPlaylistTracks, each running
\* up to its fetch, and awaits both (src/sync.ts:411-421, 93-113, 167-185).
GetAccessTokenJson ==
    /\ pc = "getAccessToken_json"
    /\ \E data \in TokenBodies :
         /\ Read("getAccessToken", data)
         /\ LET tok == AccessTokenOf(data)
                noId == PlaylistIdMissing(env)
            IN  IF tok.isNull
                THEN /\ Ended("getAccessToken",
                              IF data.parse = "malformed" THEN "malformed" ELSE "structure")
                     /\ Exit(1)
                     /\ UNCHANGED << accessToken, likesPc, playlistPc, requests >>
                ELSE /\ accessToken' = tok
                     /\ likesPc' = "fetch"
                     /\ playlistPc' = IF noId THEN "done" ELSE "fetch"
                     /\ requests' = requests \o <<LikesRequest(tok, TrackCount(env))>>
                           \o (IF noId THEN <<>> ELSE <<PlaylistTracksRequest(tok)>>)
                     /\ outcome' = [outcome EXCEPT
                           !["getAccessToken"] = "ok",
                           !["getPlaylistTracks"] = IF noId THEN "notConfigured" ELSE @]
                     /\ pc' = "Promise_all"
                     /\ UNCHANGED exitCode
    /\ UNCHANGED << env, previousRun, remoteDetails, remoteChanged, detailsData,
                    detailsValid, consoleError, remoteTracks, trackUris, currentTracks,
                    validTracks, needsUpdate, updateSuccess, calls >>

\* Variant of GetRecentLikesFetch: the timer does not abort the fetch, whose
\* response is used when it arrives later.
GetRecentLikesFetchNotAborted ==
    /\ pc = "Promise_all"
    /\ likesPc = "fetch"
    /\ \E o \in OkOrNotOutcomes :
         /\ Settled("getRecentLikes", o)
         /\ IF o.kind = "network"
            THEN /\ Ended("getRecentLikes", o.kind)
                 /\ likesPc' = "done"
            ELSE /\ likesPc' = IF o.kind = "timeout" \/ Ok(o.status) THEN "json"
                               ELSE "error"
                 /\ UNCHANGED outcome
    /\ UNCHANGED << env, previousRun, remoteDetails, remoteChanged, detailsData,
                    detailsValid, consoleError, remoteTracks, pc, exitCode,
                    accessToken, trackUris, playlistPc, currentTracks, validTracks,
                    needsUpdate, updateSuccess, requests, calls >>

\* getRecentLikes: its fetch settles (src/sync.ts:107-134).
GetRecentLikesFetch ==
    /\ pc = "Promise_all"
    /\ likesPc = "fetch"
    /\ \E o \in OkOrNotOutcomes :
         /\ Settled("getRecentLikes", o)
         /\ IF o.kind # "response"
            THEN /\ Ended("getRecentLikes", o.kind)
                 /\ likesPc' = "done"
            ELSE /\ likesPc' = IF Ok(o.status) THEN "json" ELSE "error"
                 /\ UNCHANGED outcome
    /\ UNCHANGED << env, previousRun, remoteDetails, remoteChanged, detailsData,
                    detailsValid, consoleError, remoteTracks, pc, exitCode, accessToken,
                    trackUris, playlistPc, currentTracks, validTracks, needsUpdate,
                    updateSuccess, requests, calls >>

\* Variant of GetRecentLikesError: after a non-2xx response the request is
\* sent again.
GetRecentLikesErrorRetried ==
    /\ pc = "Promise_all"
    /\ likesPc = "error"
    /\ requests' = Append(requests, LikesRequest(accessToken, TrackCount(env)))
    /\ likesPc' = "fetch"
    /\ UNCHANGED << env, previousRun, remoteDetails, remoteChanged, detailsData,
                    detailsValid, consoleError, remoteTracks, pc, exitCode, accessToken,
                    trackUris, playlistPc, currentTracks, validTracks, needsUpdate,
                    updateSuccess, calls, outcome, replies >>

\* getRecentLikes: the body of a non-2xx response has been read (src/sync.ts:125-134).
GetRecentLikesError ==
    /\ pc = "Promise_all"
    /\ likesPc = "error"
    /\ Ended("getRecentLikes", "status")
    /\ likesPc' = "done"
    /\ UNCHANGED << env, previousRun, remoteDetails, remoteChanged, detailsData,
                    detailsValid, consoleError, remoteTracks, pc, exitCode, accessToken,
                    trackUris, playlistPc, currentTracks, validTracks, needsUpdate,
                    updateSuccess, requests, calls, replies >>

\* getRecentLikes: the body has been read (src/sync.ts:136-156).
GetRecentLikesJson ==
    /\ pc = "Promise_all"
    /\ likesPc = "json"
    /\ \E data \in LikesBodiesNow(previousRun) :
         /\ Read("getRecentLikes", data)
         /\ trackUris' = RecentLikesOf(data)
         /\ Ended("getRecentLikes", BodyCategory(data))
    /\ likesPc' = "done"
    /\ UNCHANGED << env, previousRun, remoteDetails, remoteChanged, detailsData,
                    detailsValid, consoleError, remoteTracks, pc, exitCode, accessToken,
                    playlistPc, currentTracks, validTracks, needsUpdate, updateSuccess,
                    requests, calls >>

\* getPlaylistTracks: its fetch settles (src/sync.ts:179-200).
GetPlaylistTracksFetch ==
    /\ pc = "Promise_all"
    /\ playlistPc = "fetch"
    /\ \E o \in OkOrNotOutcomes :
         /\ Settled("getPlaylistTracks", o)
         /\ IF o.kind = "response" /\ Ok(o.status)
            THEN /\ playlistPc' = "json"
                 /\ UNCHANGED outcome
            ELSE /\ Ended("getPlaylistTracks", Category(o))
                 /\ playlistPc' = "done"
    /\ UNCHANGED << env, previousRun, remoteDetails, remoteChanged, detailsData,
                    detailsValid, consoleError, remoteTracks, pc, exitCode, accessToken,
                    likesPc, trackUris, currentTracks, validTracks, needsUpdate,
                    updateSuccess, requests, calls >>

\* getPlaylistTracks: the body has been read (src/sync.ts:202-223).
GetPlaylistTracksJson ==
    /\ pc = "Promise_all"
    /\ playlistPc = "json"
    /\ \E data \in PlaylistBodies(remoteTracks) :
         /\ Read("getPlaylistTracks", data)
         /\ currentTracks' = PlaylistTracksOf(data)
         /\ Ended("getPlaylistTracks", BodyCategory(data))
    /\ playlistPc' = "done"
    /\ UNCHANGED << env, previousRun, remoteDetails, remoteChanged, detailsData,
                    detailsValid, consoleError, remoteTracks, pc, exitCode, accessToken,
                    likesPc, trackUris, validTracks, needsUpdate, updateSuccess,
                    requests, calls >>

\* main calls updatePlaylistDescription and, when it returns, exits 0
\* (src/sync.ts:467-472, 360-383); out is the outcome record so far.
CallUpdatePlaylistDescription(out) ==
    IF PlaylistIdMissing(env)
    THEN /\ outcome' = [out EXCEPT !["updatePlaylistDescription"] = "notConfigured"]
         /\ Exit(0)
         /\ UNCHANGED requests
    ELSE /\ \E now \in Instants :
              requests' = Append(requests, DescriptionRequest(accessToken, now))
         /\ pc' = "updatePlaylistDescription"
         /\ outcome' = out
         /\ UNCHANGED exitCode

\* Variant of CallUpdatePlaylistTitle: main does not await updatePlaylistTitle
\* before it calls updatePlaylistDescription.
CallUpdatePlaylistTitleNotAwaited(out) ==
    IF PlaylistIdMissing(env)
    THEN CallUpdatePlaylistDescription(
             [out EXCEPT !["updatePlaylistTitle"] = "notConfigured"])
    ELSE /\ \E now \in Instants :
              requests' = requests \o << TitleRequest(accessToken, Len(validTracks)),
                                         DescriptionRequest(accessToken, now) >>
         /\ pc' = "updatePlaylistTitle"
         /\ outcome' = out
         /\ UNCHANGED exitCode

\* main calls updatePlaylistTitle (src/sync.ts:462-465, 304-327).
CallUpdatePlaylistTitle(out) ==
    IF PlaylistIdMissing(env)
    THEN CallUpdatePlaylistDescription(
             [out EXCEPT !["updatePlaylistTitle"] = "notConfigured"])
    ELSE /\ requests' = Append(requests, TitleRequest(accessToken, Len(validTracks)))
         /\ pc' = "updatePlaylistTitle"
         /\ outcome' = out
         /\ UNCHANGED exitCode

\* Variant of PromiseAllSettled: main goes on as soon as getRecentLikes has
\* returned, with what getPlaylistTracks has returned by then.
PromiseAllLikesSettled == likesPc = "done"

\* Promise.all of the two reads has settled: both have returned
\* (src/sync.ts:418-421).
PromiseAllSettled == likesPc = "done" /\ playlistPc = "done"

\* Both reads have returned: main validates the likes, compares them with the
\* playlist and either exits, calls updatePlaylist up to its fetch, or goes
\* on to the description (src/sync.ts:423-459, 235-258).
AfterPromiseAll ==
    /\ pc = "Promise_all"
    /\ PromiseAllSettled
    /\ LET d == Decision(trackUris, currentTracks)
       IN  CASE d \in {"likesFailed", "invalidUris"} ->
                  /\ Exit(1)
                  /\ validTracks' = IF d = "invalidUris"
                                    THEN ValidTracks(trackUris.val) ELSE validTracks
                  /\ UNCHANGED << needsUpdate, updateSuccess, requests, calls, outcome,
                                  consoleError >>
             [] d = "noTracks" ->
                  /\ Exit(0)
                  /\ validTracks' = ValidTracks(trackUris.val)
                  /\ UNCHANGED << needsUpdate, updateSuccess, requests, calls, outcome,
                                  consoleError >>
             [] d = "update" ->
                  /\ validTracks' = ValidTracks(trackUris.val)
                  /\ needsUpdate' = TRUE
                  /\ calls' = Append(calls, validTracks')
                  /\ IF PlaylistIdMissing(env)
                     THEN /\ updateSuccess' = Some(FALSE)
                          /\ consoleError' = Append(consoleError, NotConfiguredMessage)
                          /\ Ended("updatePlaylist", "notConfigured")
                          /\ Exit(1)
                          /\ UNCHANGED requests
                     ELSE /\ requests' = Append(requests,
                                 ReplaceTracksRequest(accessToken, validTracks'))
                          /\ pc' = "updatePlaylist"
                          /\ UNCHANGED << updateSuccess, exitCode, outcome, consoleError >>
             [] d = "upToDate" ->
                  /\ validTracks' = ValidTracks(trackUris.val)
                  /\ needsUpdate' = FALSE
                  /\ CallUpdatePlaylistDescription(outcome)
                  /\ UNCHANGED << updateSuccess, calls, consoleError >>
    /\ UNCHANGED << env, previousRun, remoteDetails, remoteChanged, detailsData,
                    detailsValid, remoteTracks, accessToken, likesPc, trackUris,
                    playlistPc, currentTracks, replies >>

\* updatePlaylist: its fetch settles (src/sync.ts:247-290, 452-465).  A request
\* that timed out or broke may or may not have been applied by the service.
UpdatePlaylistFetch ==
    /\ pc = "updatePlaylist"
    /\ \E o \in FetchOutcomes :
         /\ Settled("updatePlaylist", o)
         /\ CASE o.kind # "response" ->
                   /\ \E applied \in BOOLEAN :
                        remoteTracks' = IF applied THEN Replaced(validTracks)
                                        ELSE remoteTracks
                   /\ updateSuccess' = Some(FALSE)
                   /\ consoleError' = Append(consoleError, RejectedMessage(o.kind))
                   /\ Ended("updatePlaylist", o.kind)
                   /\ Exit(1)
                   /\ UNCHANGED requests
              [] o.kind = "response" /\ ~Ok(o.status) ->
                   /\ pc' = "updatePlaylist_error"
                   /\ UNCHANGED << remoteTracks, updateSuccess, exitCode, requests, outcome,
                                   consoleError >>
              [] o.kind = "response" /\ Ok(o.status) ->
                   /\ remoteTracks' = Replaced(validTracks)
                   /\ updateSuccess' = Some(TRUE)
                   /\ CallUpdatePlaylistTitle([outcome EXCEPT !["updatePlaylist"] = "ok"])
                   /\ UNCHANGED consoleError
    /\ UNCHANGED << env, previousRun, remoteDetails, detailsData,
                    detailsValid, accessToken, likesPc, trackUris, playlistPc,
                    currentTracks, validTracks, needsUpdate, calls >>
    /\ ServiceChanged

\* Variant of UpdatePlaylistError: main does not test updateSuccess.
UpdatePlaylistErrorIgnored ==
    /\ pc = "updatePlaylist_error"
    /\ updateSuccess' = Some(FALSE)
    /\ CallUpdatePlaylistTitle([outcome EXCEPT !["updatePlaylist"] = "status"])
    /\ UNCHANGED << env, previousRun, remoteDetails, remoteChanged, detailsData,
                    detailsValid, consoleError, remoteTracks, accessToken, likesPc,
                    trackUris, playlistPc, currentTracks, validTracks, needsUpdate,
                    calls, replies >>

\* updatePlaylist: the body of a non-2xx response has been read, it returns
\* false and main exits 1 (src/sync.ts:270-287, 453-456).
UpdatePlaylistError ==
    /\ pc = "updatePlaylist_error"
    /\ \E data \in ErrorBodies :
         /\ Read("updatePlaylist", data)
         /\ consoleError' = Append(consoleError,
                                  StatusMessage(replies["updatePlaylist"].status, data))
    /\ updateSuccess' = Some(FALSE)
    /\ Ended("updatePlaylist", "status")
    /\ Exit(1)
    /\ UNCHANGED << env, previousRun, remoteDetails, remoteChanged, detailsData,
                    detailsValid, remoteTracks, accessToken, likesPc, trackUris,
                    playlistPc, currentTracks, validTracks, needsUpdate, requests,
                    calls >>

\* Variant of UpdatePlaylistTitleFetch: a failed write of the name is fatal.
UpdatePlaylistTitleFetchFatal ==
    /\ pc = "updatePlaylistTitle"
    /\ \E o \in OkOrNotOutcomes :
         /\ Settled("updatePlaylistTitle", o)
         /\ DetailsWritten(o, "name", PlaylistTitle(Len(validTracks)))
         /\ IF Category(o) = "ok"
            THEN CallUpdatePlaylistDescription(
                     [outcome EXCEPT !["updatePlaylistTitle"] = Category(o)])
            ELSE /\ Ended("updatePlaylistTitle", Category(o))
                 /\ Exit(1)
                 /\ UNCHANGED requests
    /\ UNCHANGED << env, previousRun, detailsData, detailsValid,
                    consoleError, remoteTracks, accessToken, likesPc, trackUris,
                    playlistPc, currentTracks, validTracks, needsUpdate, updateSuccess,
                    calls >>
    /\ ServiceChanged

\* updatePlaylistTitle: its fetch settles, whatever the result main goes on to
\* the description (src/sync.ts:316-345, 464-469).
UpdatePlaylistTitleFetch ==
    /\ pc = "updatePlaylistTitle"
    /\ \E o \in OkOrNotOutcomes :
         /\ Settled("updatePlaylistTitle", o)
         /\ DetailsWritten(o, "name", PlaylistTitle(Len(validTracks)))
         /\ CallUpdatePlaylistDescription(
                [outcome EXCEPT !["updatePlaylistTitle"] = Category(o)])
    /\ UNCHANGED << env, previousRun, detailsData, detailsValid,
                    consoleError, remoteTracks, accessToken, likesPc, trackUris,
                    playlistPc, currentTracks, validTracks, needsUpdate, updateSuccess,
                    calls >>
    /\ ServiceChanged

\* Variant of UpdatePlaylistDescriptionFetch: a failed description write is fatal.
UpdatePlaylistDescriptionFetchFatal ==
    /\ pc = "updatePlaylistDescription"
    /\ \E o \in OkOrNotOutcomes :
         /\ Settled("updatePlaylistDescription", o)
         /\ DetailsWritten(o, "description", requests[Len(requests)].text)
         /\ /\ Ended("updatePlaylistDescription", Category(o))
            /\ Exit(IF Category(o) = "ok" THEN 0 ELSE 1)
    /\ UNCHANGED << env, previousRun, detailsData, detailsValid,
                    consoleError, remoteTracks, accessToken, likesPc, trackUris,
                    playlistPc, currentTracks, validTracks, needsUpdate, updateSuccess,
                    requests, calls >>
    /\ ServiceChanged

\* updatePlaylistDescription: its fetch settles, whatever the result main
\* exits 0 (src/sync.ts:372-401, 469-472).
UpdatePlaylistDescriptionFetch ==
    /\ pc = "updatePlaylistDescription"
    /\ \E o \in OkOrNotOutcomes :
         /\ Settled("updatePlaylistDescription", o)
         /\ DetailsWritten(o, "description", requests[Len(requests)].text)
         /\ Ended("updatePlaylistDescription", Category(o))
    /\ Exit(0)
    /\ UNCHANGED << env, previousRun, detailsData, detailsValid,
                    consoleError, remoteTracks, accessToken, likesPc, trackUris,
                    playlistPc, currentTracks, validTracks, needsUpdate, updateSuccess,
                    requests, calls >>
    /\ ServiceChanged

Next ==
    \/ Main
    \/ MainCatch
    \/ GetAccessTokenFetch
    \/ GetAccessTokenError
    \/ GetAccessTokenJson
    \/ GetRecentLikesFetch
    \/ GetRecentLikesError
    \/ GetRecentLikesJson
    \/ GetPlaylistTracksFetch
    \/ GetPlaylistTracksJson
    \/ AfterPromiseAll
    \/ UpdatePlaylistFetch
    \/ UpdatePlaylistError
    \/ UpdatePlaylistTitleFetch
    \/ UpdatePlaylistDescriptionFetch

Spec == Init /\ [][Next]_vars

\* The script is started again as soon as a first run has succeeded: the
\* process is new, the configuration and the service are what the first run
\* left.
SecondRun ==
    /\ pc = "done"
    /\ exitCode = 0
    /\ ~previousRun.ran
    /\ previousRun' = PreviousRun(exitCode, replies["getRecentLikes"], updateSuccess)
    /\ pc' = "main"
    /\ exitCode' = NotExited
    /\ accessToken' = Null
    /\ likesPc' = "idle"
    /\ trackUris' = Null
    /\ playlistPc' = "idle"
    /\ currentTracks' = Null
    /\ validTracks' = <<>>
    /\ needsUpdate' = FALSE
    /\ updateSuccess' = Null
    /\ requests' = <<>>
    /\ calls' = <<>>
    /\ outcome' = [op \in Operations |-> "none"]
    /\ replies' = [op \in Operations |-> NoReply]
    /\ consoleError' = <<>>
    /\ remoteChanged' = NothingChanged
    /\ UNCHANGED << env, remoteTracks, remoteDetails, detailsData, detailsValid >>

NextTwoRuns == Next \/ SecondRun

\* A complete configuration but for the client secret, which may hold a
\* character btoa rejects, and any playlist on the service.
InitTwoRuns ==
    /\ env \in [ SPOTIFY_CLIENT_ID : { Some(<<"c">>) },
                 SPOTIFY_CLIENT_SECRET : { Some(<<"c">>), Some(<<NonLatin1Char>>) },
                 SPOTIFY_REFRESH_TOKEN : { Some(<<"c">>) },
                 PLAYLIST_ID : { Some(<<"p">>) },
                 TRACK_COUNT : { Null } ]
    /\ remoteTracks \in SeqsUpTo(RemoteItems, MaxRemote)
    /\ previousRun = NoPreviousRun
    /\ Started
    /\ ServiceAtStart
    /\ NotVerifying

\* getPlaylistDetails has read a body and gives it to the guard.
InitVerify ==
    /\ env \in [ SPOTIFY_CLIENT_ID : { Some(<<"c">>) },
                 SPOTIFY_CLIENT_SECRET : { Some(<<"c">>) },
                 SPOTIFY_REFRESH_TOKEN : { Some(<<"c">>) },
                 PLAYLIST_ID : { Some(<<"p">>) },
                 TRACK_COUNT : { Null } ]
    /\ remoteTracks = <<>>
    /\ previousRun = NoPreviousRun
    /\ Started
    /\ ServiceAtStart
    /\ detailsData \in DetailsInputs
    /\ detailsValid = Null

\* getPlaylistDetails calls isPlaylistDetails(data) (src/verify-playlist.ts:62).
IsPlaylistDetailsCall ==
    /\ detailsValid = Null
    /\ detailsValid' = Some(IsPlaylistDetails(detailsData))
    /\ UNCHANGED << env, remoteTracks, pc, exitCode, accessToken, likesPc, trackUris,
                    playlistPc, currentTracks, validTracks, needsUpdate, updateSuccess,
                    requests, calls, outcome, replies, consoleError, previousRun,
                    remoteDetails, remoteChanged, detailsData >>

NextVerify == IsPlaylistDetailsCall

\* The guard of verify-playlist over the values it can be given.
SpecVerify == InitVerify /\ [][NextVerify]_vars

\* Two runs of main in immediate succession.
SpecTwoRuns == InitTwoRuns /\ [][NextTwoRuns]_vars

\* The runs of main over the values of TRACK_COUNT.
SpecTrackCount == InitTrackCount /\ [][Next]_vars

\* What the code's scheduling guarantees.  A synchronous stretch of main runs
\* to its end.  An awaited fetch settles: its timer aborts it after
\* REQUEST_TIMEOUT_MS if nothing else did (src/sync.ts:26, 105, 177, 245, 314,
\* 370).  The read of a body has no such guarantee: the timer is cleared as
\* soon as the fetch has settled (src/sync.ts:48, 123, 196, 268), before
\* response.json() is awaited (52, 63, 127, 138, 204, 272).
Fairness ==
    /\ WF_vars(Main)
    /\ WF_vars(MainCatch)
    /\ WF_vars(AfterPromiseAll)
    /\ WF_vars(GetAccessTokenFetch)
    /\ WF_vars(GetRecentLikesFetch)
    /\ WF_vars(GetPlaylistTracksFetch)
    /\ WF_vars(UpdatePlaylistFetch)
    /\ WF_vars(UpdatePlaylistTitleFetch)
    /\ WF_vars(UpdatePlaylistDescriptionFetch)

LiveSpec == Spec /\ Fairness

\* ------------------------------------------------------------- type invariant
TypeOK ==
    /\ pc \in { "main", "catch", "getAccessToken", "getAccessToken_error", "getAccessToken_json",
                "Promise_all", "updatePlaylist", "updatePlaylist_error",
                "updatePlaylistTitle", "updatePlaylistDescription", "done" }
    /\ exitCode \in { NotExited, 0, 1 }
    /\ (pc = "done") = (exitCode # NotExited)
    /\ likesPc \in { "idle", "fetch", "error", "json", "done" }
    /\ playlistPc \in { "idle", "fetch", "json", "done" }

\* ------------------------------------------------------ vocabulary of claims
Failures == { "timeout", "network", "status", "malformed", "structure" }

\* The requests sent so far to PUT /v1/playlists/<id>/tracks.
ReplaceRequests == { i \in DOMAIN requests : requests[i].ep = "replaceTracks" }

\* The requests sent so far to PUT /v1/playlists/<id>.
MetadataRequests == { i \in DOMAIN requests : requests[i].ep = "details" }

\* updatePlaylist has neither been called nor has its request been sent.
WriterNotInvoked == calls = <<>> /\ ReplaceRequests = {}

\* getRecentLikes has returned a list.
LikesReturned == likesPc = "done" /\ ~trackUris.isNull

\* Every reference of the returned list is longer than the 14-character prefix.
AllPassLengthCheck ==
    \A i \in DOMAIN trackUris.val : Len(trackUris.val[i]) > MinUriLength

\* getRecentLikes has returned a valid non-empty list L = trackUris.val.
LikesValidNonEmpty == LikesReturned /\ trackUris.val # <<>> /\ AllPassLengthCheck

\* main has gone past the comparison of src/sync.ts:448.
Decided ==
    pc \in { "updatePlaylist", "updatePlaylist_error", "updatePlaylistTitle",
             "updatePlaylistDescription", "done" }

\* C1: once getRecentLikes has returned an empty list, updatePlaylist is never
\* called, no replace request is sent, and the run can only exit with 0.
C1_EmptyLikesNoWriteExit0 ==
    (LikesReturned /\ trackUris.val = <<>>)
        => /\ WriterNotInvoked
           /\ exitCode \in { NotExited, 0 }

\* A run over a non-empty playlist that got an empty likes list has exited 0.
C1_Witness ==
    /\ pc = "done" /\ exitCode = 0
    /\ LikesReturned /\ trackUris.val = <<>>
    /\ remoteTracks # <<>>

\* C2: once getRecentLikes has failed, for any of the five causes, its result
\* is null and not an empty list, updatePlaylist is never called, no replace
\* request is sent, and the run can only exit with 1.
C2_LikesFailureExit1NoWrite ==
    (outcome["getRecentLikes"] \in Failures)
        => /\ trackUris.isNull
           /\ WriterNotInvoked
           /\ exitCode \in { NotExited, 1 }

\* A run whose likes response had no items array has exited 1 while the
\* playlist read succeeded.
C2_Witness ==
    /\ pc = "done" /\ exitCode = 1
    /\ outcome["getRecentLikes"] = "structure"
    /\ ~currentTracks.isNull

\* C3: every replace request sent, and every call of updatePlaylist, carries a
\* non-empty track list.
C3_NeverClear ==
    /\ \A i \in ReplaceRequests : requests[i].uris # <<>>
    /\ \A i \in DOMAIN calls : calls[i] # <<>>

\* A replace request has been sent.
C3_Witness == ReplaceRequests # {} /\ pc = "updatePlaylist"

\* C4: with a valid non-empty likes list L, if getPlaylistTracks returned
\* exactly L, updatePlaylist is never called and no replace request is sent.
C4_UpToDateNoWrite ==
    (LikesValidNonEmpty /\ playlistPc = "done" /\ ~currentTracks.isNull
        /\ currentTracks.val = trackUris.val)
        => WriterNotInvoked

\* A run whose playlist read returned the two likes in the same order has ended.
C4_Witness ==
    /\ pc = "done"
    /\ LikesValidNonEmpty /\ Len(trackUris.val) = 2
    /\ ~currentTracks.isNull /\ currentTracks.val = trackUris.val

\* C5: with a valid non-empty likes list L, once main has gone past the
\* comparison, either updatePlaylist was called with exactly L and every
\* replace request sent carries exactly L, or the remote playlist (untouched
\* by this run, no write having been attempted) holds exactly the tracks of L.
C5_RemoteDiffersThenWrite ==
    (LikesValidNonEmpty /\ Decided)
        => \/ /\ calls = << trackUris.val >>
              /\ \A i \in ReplaceRequests : requests[i].uris = trackUris.val
           \/ /\ calls = <<>>
              /\ remoteTracks = Replaced(trackUris.val)

\* C6: with a valid non-empty likes list L, if getPlaylistTracks returned a
\* list other than L (other elements, or the same elements in another order),
\* then once main has gone past the comparison needsUpdate is true,
\* updatePlaylist has been called exactly once and exactly one replace
\* request has been sent.
C6_OrderedComparison ==
    (LikesValidNonEmpty /\ Decided /\ ~currentTracks.isNull
        /\ currentTracks.val # trackUris.val)
        => /\ needsUpdate
           /\ Len(calls) = 1
           /\ Cardinality(ReplaceRequests) = 1

\* The playlist read returned the two likes in the opposite order and the
\* run, having replaced the playlist once, has ended.
C6_Witness ==
    /\ pc = "done"
    /\ LikesValidNonEmpty /\ Len(trackUris.val) = 2
    /\ trackUris.val[1] # trackUris.val[2]
    /\ ~currentTracks.isNull
    /\ currentTracks.val = << trackUris.val[2], trackUris.val[1] >>
    /\ Cardinality(ReplaceRequests) = 1

\* C7: with a valid non-empty likes list L, if getPlaylistTracks returned
\* null, then once main has gone past the comparison updatePlaylist has been
\* called with L, and the run exits 1 only if updatePlaylist returned false.
C7_ReaderFailureProceeds ==
    (LikesValidNonEmpty /\ Decided /\ currentTracks.isNull)
        => /\ calls = << trackUris.val >>
           /\ (exitCode = 1 => updateSuccess = Some(FALSE))

\* The playlist read failed on the network, the playlist was replaced and the
\* run has exited 0.
C7_Witness ==
    /\ pc = "done" /\ exitCode = 0
    /\ outcome["getPlaylistTracks"] \in Failures
    /\ LikesValidNonEmpty
    /\ updateSuccess = Some(TRUE)

\* C8: once updatePlaylist has returned false the run has exited with 1, and
\* no request to the playlist detail endpoint (name or description) is sent.
C8_WriterFailureFatal ==
    (updateSuccess = Some(FALSE))
        => /\ pc = "done" /\ exitCode = 1
           /\ MetadataRequests = {}

\* The replace request was answered with a non-2xx status.
C8_Witness ==
    /\ updateSuccess = Some(FALSE)
    /\ outcome["updatePlaylist"] = "status"
    /\ ReplaceRequests # {}

\* C9: a run that has called updatePlaylistTitle or updatePlaylistDescription
\* can only exit with 0, whatever the result of those calls.
C9_MetadataFailureNotFatal ==
    (outcome["updatePlaylistTitle"] # "none"
        \/ outcome["updatePlaylistDescription"] # "none"
        \/ pc \in { "updatePlaylistTitle", "updatePlaylistDescription" })
        => exitCode \in { NotExited, 0 }

\* On the skip path the description write failed and the run has exited 0.
C9_Witness ==
    /\ pc = "done" /\ exitCode = 0
    /\ ~needsUpdate /\ calls = <<>>
    /\ outcome["updatePlaylistDescription"] \in Failures

\* C10: a run that has ended exits 0 exactly when the token was acquired, the
\* likes fetch returned a list, every reference of the list passed the length
\* check, and the list was empty, or the playlist read returned the same
\* list, or updatePlaylist returned true; otherwise it exits 1.
C10_ExitStatus ==
    (pc = "done")
        => LET success ==
                 /\ ~accessToken.isNull
                 /\ LikesReturned
                 /\ AllPassLengthCheck
                 /\ \/ trackUris.val = <<>>
                    \/ (~currentTracks.isNull /\ currentTracks.val = trackUris.val)
                    \/ updateSuccess = Some(TRUE)
           IN  exitCode = IF success THEN 0 ELSE 1

\* A run has exited 1 because a reference of the likes list was too short.
C10_Witness ==
    /\ pc = "done" /\ exitCode = 1
    /\ LikesReturned /\ ~AllPassLengthCheck

\* getAccessToken has returned to main.
TokenReturned ==
    pc \notin { "main", "catch", "getAccessToken", "getAccessToken_error",
                "getAccessToken_json" }

\* C11: once getAccessToken has failed, for whatever cause, the run has
\* exited with 1 and the only request it ever sent is the token request.
C11_TokenFailureStops ==
    (outcome["getAccessToken"] \notin { "none", "ok" })
        => /\ pc = "done" /\ exitCode = 1
           /\ \A i \in DOMAIN requests : requests[i].ep = "token"

\* The token endpoint answered with a non-2xx status and the run has ended.
C11_Witness ==
    /\ outcome["getAccessToken"] = "status"
    /\ requests = << TokenRequest >>
    /\ pc = "done"

\* One of the three credentials is undefined or the empty string.
SomeCredentialMissing ==
    \E k \in { "SPOTIFY_CLIENT_ID", "SPOTIFY_CLIENT_SECRET", "SPOTIFY_REFRESH_TOKEN" } :
        env[k].isNull \/ Len(env[k].val) = 0

\* C12: with one of the three credentials missing or empty, once main has
\* called getAccessToken its result is null and no request was ever sent.
C12_MissingCredentialsNoCall ==
    (SomeCredentialMissing /\ pc # "main")
        => /\ accessToken.isNull
           /\ requests = <<>>
           /\ TokenReturned

\* Only the refresh token is empty, and getAccessToken has returned.
C12_Witness ==
    /\ ~Falsy(env.SPOTIFY_CLIENT_ID) /\ ~Falsy(env.SPOTIFY_CLIENT_SECRET)
    /\ env.SPOTIFY_REFRESH_TOKEN = Some(<<>>)
    /\ pc = "done" /\ exitCode = 1

\* The token request was answered with a 2xx status and a JSON body whose
\* access_token is a string with a character that is not white space.
TokenReplyGood ==
    LET r == replies["getAccessToken"]
    IN  /\ r.kind = "response"
        /\ r.status >= 200 /\ r.status <= 299
        /\ r.data.parse = "ok"
        /\ r.data.shape = "object"
        /\ r.data.tokenKind = "string"
        /\ \E i \in DOMAIN r.data.token : ~IsSpace(r.data.token[i])

\* C13: the token main holds is non-null only after a good reply, and is then
\* the access_token of that reply; after any other reply, or none, it is null.
C13_TokenOnlyFromGoodReply ==
    /\ ~accessToken.isNull
          => TokenReplyGood /\ accessToken.val = replies["getAccessToken"].data.token
    /\ (TokenReturned /\ ~TokenReplyGood) => accessToken.isNull

\* The body held an access_token of white space only and the run exited 1.
C13_Witness ==
    /\ TokenReturned /\ accessToken.isNull
    /\ replies["getAccessToken"].data = TokenBody("ok", "object", "string", <<" ">>)
    /\ exitCode = 1

\* The requests sent so far with a name, and with a description, in the body.
NameRequests == { i \in MetadataRequests : requests[i].field = "name" }
DescriptionRequests == { i \in MetadataRequests : requests[i].field = "description" }

\* C14: a run sends at most one request to PUT /v1/playlists/<id>; name and
\* description never travel in two separate requests.
C14_SingleMetadataRequest ==
    Cardinality(MetadataRequests) <= 1

\* C15: a run that has exited 0 with a valid non-empty likes list L has sent
\* the name LAST<N>LIKED with N = |L| and has sent a description, whether or
\* not it replaced the tracks.
C15_MetadataAlwaysWithName ==
    (pc = "done" /\ exitCode = 0 /\ LikesValidNonEmpty)
        => /\ \E i \in NameRequests :
                 /\ requests[i].count = Len(trackUris.val)
                 /\ requests[i].text = PlaylistTitle(Len(trackUris.val))
           /\ DescriptionRequests # {}

\* YYYY-MM-DD HH:mm:ss of a reading of the clock
DateAndTime(t) ==
    Padded(t.year, 4) \o <<"-">> \o Padded(t.month, 2) \o <<"-">> \o Padded(t.day, 2)
        \o <<" ">> \o Padded(t.hour, 2) \o <<":">> \o Padded(t.minute, 2)
        \o <<":">> \o Padded(t.second, 2)

\* C16: every description sent reads 'Last sync: YYYY-MM-DD HH:mm:ss UTC',
\* with the UTC time, to the second, at which it was written.
C16_LastSyncDescription ==
    \A i \in DescriptionRequests :
        requests[i].text =
            <<"L", "a", "s", "t", " ", "s", "y", "n", "c", ":", " ">>
                \o DateAndTime(requests[i].at) \o <<" ", "U", "T", "C">>

\* The requests sent so far to GET /v1/me/tracks.
LikesRequests == { i \in DOMAIN requests : requests[i].ep = "likes" }

\* The decimal numerals of 0..100.
Numerals == [n \in 0..100 |-> Decimal(n)]

\* The query string that asks for n likes.
LimitQuery == [n \in 1..50 |-> <<"l", "i", "m", "i", "t", "=">> \o Numerals[n]]

\* TRACK_COUNT is set to the text str.
TrackCountIs(str) == ~env.TRACK_COUNT.isNull /\ env.TRACK_COUNT.val = str

\* TRACK_COUNT is absent, empty, or has no digit in it.
TrackCountNotNumeric ==
    \/ env.TRACK_COUNT.isNull
    \/ \A k \in DOMAIN env.TRACK_COUNT.val : ~IsDigit(env.TRACK_COUNT.val[k])

\* TRACK_COUNT is the numeral of zero or of a negative integer.
TrackCountNotPositive ==
    \/ TrackCountIs(<<"0">>)
    \/ \E n \in 1..100 : TrackCountIs(<<"-">> \o Numerals[n])

TrackCountNumericNotInteger ==
    /\ ~Falsy(env.TRACK_COUNT)
    /\ IsDigit(Head(env.TRACK_COUNT.val))
    /\ \E k \in DOMAIN env.TRACK_COUNT.val : ~IsDigit(env.TRACK_COUNT.val[k])

\* C18: when TRACK_COUNT is numeric but not an integer, the likes request
\* asks for the default 50, not for the digits the value begins with.
C18_NonIntegerCountIsDefault ==
    TrackCountNumericNotInteger
        => \A i \in LikesRequests : requests[i].text = LimitQuery[50]

\* What the likes endpoint answered: how the fetch settled and the body read.
LikesReply == replies["getRecentLikes"]

\* The likes response was 2xx and its body was read as JSON with an items array.
LikesReplyWithItemsArray ==
    /\ likesPc = "done"
    /\ LikesReply.kind = "response"
    /\ LikesReply.status \in 200..299
    /\ LikesReply.data.parse = "ok"
    /\ LikesReply.data.shape = "object"
    /\ LikesReply.data.itemsKind = "array"

\* item?.track?.uri is a string of the track namespace.
QualifyingItem(it) ==
    /\ it.uriKind = "string"
    /\ Len(it.uri) >= 14
    /\ SubSeq(it.uri, 1, 14) = <<"s", "p", "o", "t", "i", "f", "y", ":", "t", "r", "a", "c", "k", ":">>

\* The uris of the qualifying items of the response, in the order received.
QualifyingUris ==
    LET kept == SelectSeq(LikesReply.data.items, QualifyingItem)
    IN  [k \in 1..Len(kept) |-> kept[k].uri]

\* C19: when the likes response carries an items array, getRecentLikes
\* returns exactly the uris of the items whose track uri is a string starting
\* with spotify:track:, in the order received; the other items are dropped
\* and do not make the call fail.
C19_LikesExtraction ==
    LikesReplyWithItemsArray => trackUris = Some(QualifyingUris)

\* The response mixed qualifying and other items; some were kept, some dropped.
C19_Witness ==
    /\ LikesReplyWithItemsArray
    /\ ~trackUris.isNull
    /\ trackUris.val # <<>>
    /\ Len(trackUris.val) < Len(LikesReply.data.items)

\* C20: getRecentLikes returns null exactly when the fetch timed out or
\* failed, the status was not 2xx, the body was not JSON, or items was absent
\* or not an array; an items array that is empty or has no qualifying entry
\* gives the empty list, not null.
C20_NullOnlyOnFailure ==
    likesPc = "done"
        => /\ trackUris.isNull <=> ~LikesReplyWithItemsArray
           /\ (LikesReplyWithItemsArray /\ QualifyingUris = <<>>) => trackUris = Some(<<>>)
           /\ trackUris.isNull => trackUris.val = <<>>

\* The items array was not empty but no item qualified: the empty list came back.
C20_Witness ==
    /\ LikesReplyWithItemsArray
    /\ LikesReply.data.items # <<>>
    /\ trackUris = Some(<<>>)

\* PLAYLIST_ID is absent, empty, or made of white space only.
PlaylistIdBlank ==
    \/ env.PLAYLIST_ID.isNull
    \/ \A k \in DOMAIN env.PLAYLIST_ID.val : env.PLAYLIST_ID.val[k] \in {" ", "\t", "\n"}

\* The requests sent so far to GET /v1/playlists/<id>/tracks.
PlaylistReadRequests == { i \in DOMAIN requests : requests[i].ep = "playlistTracks" }

\* What the playlist tracks endpoint answered.
PlaylistReply == replies["getPlaylistTracks"]

\* The playlist read got a 2xx response whose body was JSON with an items array.
PlaylistReplyWithItemsArray ==
    /\ playlistPc = "done"
    /\ PlaylistReply.kind = "response"
    /\ PlaylistReply.status \in 200..299
    /\ PlaylistReply.data.parse = "ok"
    /\ PlaylistReply.data.shape = "object"
    /\ PlaylistReply.data.itemsKind = "array"

\* C21: once getPlaylistTracks has returned, its result is null whenever the
\* fetch timed out or failed, the status was not 2xx, the body was not JSON or
\* had no items array, and whenever PLAYLIST_ID is missing or blank, in which
\* case no request was sent to the playlist tracks endpoint; its failure does
\* not end the run: while getRecentLikes has not returned main still waits.
C21_PlaylistReaderFailSafe ==
    (TokenReturned /\ playlistPc = "done")
        => /\ ~PlaylistReplyWithItemsArray => currentTracks = Null
           /\ PlaylistIdBlank => (PlaylistReadRequests = {} /\ currentTracks = Null)
           /\ ~PlaylistIdBlank => Cardinality(PlaylistReadRequests) = 1
           /\ likesPc # "done" => (pc = "Promise_all" /\ exitCode = NotExited)

\* The playlist read was answered 2xx with a JSON body that has no items
\* array, and getRecentLikes is still running.
C21_Witness ==
    /\ playlistPc = "done"
    /\ likesPc # "done"
    /\ PlaylistReply.kind = "response"
    /\ PlaylistReply.status \in 200..299
    /\ PlaylistReply.data.parse = "ok"
    /\ ~PlaylistReplyWithItemsArray
    /\ currentTracks = Null

\* What the replace endpoint answered.
ReplaceReply == replies["updatePlaylist"]

\* updatePlaylist has been called and is not reading the body of an error
\* response: it has returned, or waits for its fetch.
WriterNotReadingError == calls # <<>> /\ pc # "updatePlaylist_error"

\* C22: updatePlaylist has returned true exactly when PLAYLIST_ID is
\* configured, one replace request was sent and it was answered with a 2xx
\* status; with PLAYLIST_ID missing or blank it has returned false and sent
\* no request; after a timeout, a network error or a non-2xx status it has
\* returned false.
C22_WriterResult ==
    /\ updateSuccess = Some(TRUE)
          <=> /\ ~PlaylistIdBlank
              /\ Cardinality(ReplaceRequests) = 1
              /\ ReplaceReply.kind = "response"
              /\ ReplaceReply.status \in 200..299
    /\ (calls # <<>> /\ PlaylistIdBlank)
          => (updateSuccess = Some(FALSE) /\ ReplaceRequests = {})
    /\ (WriterNotReadingError /\ ReplaceReply.kind \in {"timeout", "network"})
          => updateSuccess = Some(FALSE)
    /\ (WriterNotReadingError /\ ReplaceReply.kind = "response"
            /\ ReplaceReply.status \notin 200..299)
          => updateSuccess = Some(FALSE)

\* The replace request was answered 201 and updatePlaylist returned true.
C22_Witness ==
    /\ updateSuccess = Some(TRUE)
    /\ ReplaceReply.status = 201
    /\ Cardinality(ReplaceRequests) = 1

\* updatePlaylist has returned false after a response with a non-2xx status.
WriterFailedOnStatus ==
    /\ updateSuccess = Some(FALSE)
    /\ ReplaceReply.kind = "response"
    /\ ReplaceReply.status \notin 200..299

\* The last line updatePlaylist wrote with console.error.
LastError == consoleError[Len(consoleError)]

\* The message the claim gives to a failing status.
ClassifiedByStatus(status, m) ==
    CASE status = 404 -> m.text = "Update playlist failed: Playlist not found"
      [] status = 403 -> m.text = "Update playlist failed: Permission denied"
      [] status = 401 -> m.text = "Update playlist failed: Authentication failed"
      [] OTHER -> /\ m.text = "Update playlist failed: "
                  /\ ~m.detail.isNull
                  /\ m.status = status

\* C23: whenever updatePlaylist has failed on a non-2xx response, the message
\* it wrote is the one of the status: 404 playlist not found, 403 permission
\* denied, 401 authentication failed, any other status the generic message
\* with the detail taken from the body; it returned false and the run has
\* exited with 1.
C23_ClassifiedByStatus ==
    WriterFailedOnStatus
        => /\ consoleError # <<>>
           /\ ClassifiedByStatus(ReplaceReply.status, LastError)
           /\ pc = "done" /\ exitCode = 1

\* C24: a run can only stop in a state where the process has exited, and the
\* exit status is then 0 or 1; in particular an error thrown inside main()
\* ends in exit status 1.
C24_NoEscape ==
    /\ pc = "done" => exitCode \in {0, 1}
    /\ ~ENABLED Next => pc = "done"
    /\ pc = "catch" => exitCode = NotExited

\* btoa threw on the credentials, main() rejected, and the run has exited 1
\* without sending anything.
C24_Witness ==
    /\ ~MissingCredentials(env)
    /\ BtoaThrows(env.SPOTIFY_CLIENT_ID.val \o env.SPOTIFY_CLIENT_SECRET.val)
    /\ pc = "done" /\ exitCode = 1
    /\ requests = <<>>

\* C25: every run eventually reaches a terminal state with exit status 0 or
\* 1, whatever the service does, because each remote call is bounded by its
\* timeout from the sending of the request until its result has been read.
C25_EveryRunEnds == <>(pc = "done" /\ exitCode \in {0, 1})

\* The requests sent so far to endpoint ep.
RequestsTo(ep) == { i \in DOMAIN requests : requests[i].ep = ep }

\* C26: the token request, the likes request, the playlist-read request and
\* the replace-tracks request are each sent at most once in a run, whatever
\* their outcome.
C26_NoRetry ==
    \A ep \in { "token", "likes", "playlistTracks", "replaceTracks" } :
        Cardinality(RequestsTo(ep)) <= 1

\* The four requests were sent, the replace request failed, and the run has
\* ended without a second attempt.
C26_Witness ==
    /\ pc = "done"
    /\ outcome["updatePlaylist"] \in Failures
    /\ outcome["getPlaylistTracks"] \in Failures
    /\ \A ep \in { "token", "likes", "playlistTracks", "replaceTracks" } :
          Cardinality(RequestsTo(ep)) = 1

\* The two reads and the three writes of a run.
Reads == { "getRecentLikes", "getPlaylistTracks" }
Writes == { "updatePlaylist", "updatePlaylistTitle", "updatePlaylistDescription" }

\* The request of operation op has been sent.
RequestSent(op) ==
    \E i \in DOMAIN requests :
        CASE op = "getAccessToken" -> requests[i].ep = "token"
          [] op = "getRecentLikes" -> requests[i].ep = "likes"
          [] op = "getPlaylistTracks" -> requests[i].ep = "playlistTracks"
          [] op = "updatePlaylist" -> requests[i].ep = "replaceTracks"
          [] op = "updatePlaylistTitle" ->
                requests[i].ep = "details" /\ requests[i].field = "name"
          [] op = "updatePlaylistDescription" ->
                requests[i].ep = "details" /\ requests[i].field = "description"

\* The request of op has been sent and op has not returned yet.
InFlight(op) == RequestSent(op) /\ outcome[op] = "none"

\* C27: a write is sent only once both reads have returned, and at most one
\* write is in flight at any time.
C27_WritesAfterReadsAndSequential ==
    /\ \A w \in Writes : RequestSent(w) => \A r \in Reads : outcome[r] # "none"
    /\ Cardinality({ w \in Writes : InFlight(w) }) <= 1
    /\ \A w \in Writes : InFlight(w) => \A op \in Operations \ {w} : ~InFlight(op)

\* Both reads were made, the replace request was answered, and the name
\* request is in flight.
C27_Witness ==
    /\ InFlight("updatePlaylistTitle")
    /\ RequestSent("getPlaylistTracks")
    /\ outcome["updatePlaylist"] = "ok"
    /\ ~RequestSent("updatePlaylistDescription")

LikesWithInvalidReference == likesPc = "done" /\ LikesReturned /\ ~AllPassLengthCheck

\* C29: when a reference returned by getRecentLikes does not pass the length
\* check, updatePlaylist is never called, no request is sent to the replace
\* or to the playlist detail endpoint, and once main has gone past
\* Promise.all the run has exited with 1.
C29_ValidationFailsClosed ==
    LikesWithInvalidReference
        => /\ WriterNotInvoked
           /\ MetadataRequests = {}
           /\ exitCode \in { NotExited, 1 }
           /\ pc \in { "Promise_all", "done" }
           /\ (playlistPc = "done" /\ pc = "done") => exitCode = 1

\* Of two likes one reference is the bare prefix; the playlist was read and
\* the run has exited 1.
C29_Witness ==
    /\ LikesWithInvalidReference
    /\ Len(trackUris.val) = 2
    /\ \E i \in DOMAIN trackUris.val : Len(trackUris.val[i]) > 14
    /\ ~currentTracks.isNull
    /\ pc = "done" /\ exitCode = 1

\* C30: a run that ends with a valid empty likes list has made exactly two
\* requests, the token request and the likes request, and none to a playlist
\* endpoint.
C30_EmptyLikesTwoCalls ==
    (pc = "done" /\ LikesReturned /\ trackUris.val = <<>>)
        => /\ Len(requests) = 2
           /\ requests[1].ep = "token"
           /\ requests[2].ep = "likes"
           /\ \A i \in DOMAIN requests :
                 requests[i].ep \notin { "playlistTracks", "replaceTracks", "details" }

\* The timer of op fired while its fetch was pending: the fetch was aborted.
TimedOut(op) == replies[op].kind = "timeout"

\* C31: an operation whose fetch was aborted by its timer has returned null
\* or false for a timeout, no body was read for it afterwards, and the run
\* goes on as after that failure: it exits 1 after a token, likes or replace
\* timeout, and never because of a playlist-read or metadata timeout alone.
C31_TimeoutIsFinal ==
    /\ \A op \in Operations :
          TimedOut(op) => (outcome[op] = "timeout" /\ replies[op].data = NoData)
    /\ TimedOut("getAccessToken")
          => (accessToken = Null /\ pc = "done" /\ exitCode = 1 /\ Len(requests) = 1)
    /\ TimedOut("getRecentLikes")
          => /\ likesPc = "done" /\ trackUris = Null
             /\ pc \in { "Promise_all", "done" }
             /\ exitCode \in { NotExited, 1 }
             /\ calls = <<>>
    /\ TimedOut("getPlaylistTracks") => (playlistPc = "done" /\ currentTracks = Null)
    /\ TimedOut("updatePlaylist")
          => (updateSuccess = Some(FALSE) /\ pc = "done" /\ exitCode = 1
                /\ MetadataRequests = {})
    /\ (TimedOut("updatePlaylistTitle") \/ TimedOut("updatePlaylistDescription"))
          => exitCode \in { NotExited, 0 }

\* The replace request timed out although the service applied it: the writer
\* returned false and the run exited 1.
C31_Witness ==
    /\ TimedOut("updatePlaylist")
    /\ remoteChanged.tracks
    /\ updateSuccess = Some(FALSE)
    /\ TimedOut("getPlaylistTracks")
    /\ pc = "done"

\* Both readers got a 2xx response whose body carries the same items array.
SameItemsArray ==
    /\ LikesReplyWithItemsArray
    /\ PlaylistReplyWithItemsArray
    /\ LikesReply.data.items = PlaylistReply.data.items

EarlyExit ==
    \/ outcome["getAccessToken"] \notin { "none", "ok" }
    \/ (likesPc = "done" /\ trackUris.isNull)
    \/ (LikesReturned /\ ~AllPassLengthCheck)
    \/ (LikesReturned /\ trackUris.val = <<>>)

\* C33: a run that takes an early exit has sent no PUT, neither of the tracks
\* nor of the name or the description, has not called updatePlaylist, and has
\* changed nothing of the playlist on the service.
C33_EarlyExitFrame ==
    EarlyExit
        => /\ ReplaceRequests = {}
           /\ MetadataRequests = {}
           /\ calls = <<>>
           /\ remoteChanged = NothingChanged
           /\ remoteDetails = InitialDetails
           /\ pc \in { "Promise_all", "done" }

\* The run has exited 1 on a list of likes with a reference that fails the
\* length test, the playlist on the service being non-empty and different.
C33_Witness ==
    /\ LikesReturned /\ ~AllPassLengthCheck
    /\ pc = "done" /\ exitCode = 1
    /\ remoteTracks # <<>>
    /\ ~currentTracks.isNull
    /\ currentTracks.val # ValidTracks(trackUris.val)
    /\ ValidTracks(trackUris.val) # <<>>

\* main has gone past Promise.all.
Joined == ~accessToken.isNull /\ pc \notin { "getAccessToken_json", "Promise_all" }

\* The calls of updatePlaylist that follow from the results of the two reads.
CallsOfReads ==
    IF LikesValidNonEmpty /\ (currentTracks.isNull \/ currentTracks.val # trackUris.val)
    THEN << trackUris.val >>
    ELSE <<>>

\* Until both reads have returned nothing is decided; afterwards both results
\* are in and updatePlaylist was called as they say.
WriterCallOfReadsOnly ==
    /\ pc = "Promise_all"
          => (calls = <<>> /\ exitCode = NotExited
                /\ ReplaceRequests = {} /\ MetadataRequests = {})
    /\ Joined
          => /\ likesPc = "done" /\ playlistPc = "done"
             /\ calls = CallsOfReads

\* C34 as stated: the call of updatePlaylist, its list and the exit status
\* follow from the results of the two reads alone, whatever the order in
\* which they started and returned.
C34_OutcomeOfReadsOnly ==
    /\ WriterCallOfReadsOnly
    /\ (Joined /\ pc = "done")
          => exitCode = IF LikesReturned /\ AllPassLengthCheck THEN 0 ELSE 1

\* C34 amended: the call of updatePlaylist and its list follow from the
\* results of the two reads alone, whatever their order; the exit status
\* follows from them and, when updatePlaylist was called, from its result.
C34_OutcomeOfReadsAndWriter ==
    /\ WriterCallOfReadsOnly
    /\ (Joined /\ pc = "done")
          => exitCode = IF calls # <<>>
                        THEN (IF updateSuccess = Some(TRUE) THEN 0 ELSE 1)
                        ELSE (IF LikesReturned /\ AllPassLengthCheck THEN 0 ELSE 1)

\* Both reads returned a list, the lists differ, updatePlaylist was called
\* with the likes, returned false on a non-2xx answer, and the run exited 1.
C34_Witness ==
    /\ Joined /\ pc = "done" /\ exitCode = 1
    /\ LikesValidNonEmpty
    /\ ~currentTracks.isNull
    /\ calls = << trackUris.val >>
    /\ outcome["updatePlaylist"] = "status"

\* The token request is the first request, and every other request goes to
\* another endpoint, was sent after getAccessToken had returned the token of
\* a good reply, and carries that token.
TokenRequestFirst ==
    /\ requests # <<>> => requests[1] = TokenRequest
    /\ \A i \in DOMAIN requests :
          i > 1 => /\ requests[i].ep # "token"
                   /\ outcome["getAccessToken"] = "ok"
                   /\ TokenReplyGood
                   /\ ~accessToken.isNull
                   /\ requests[i].token = accessToken

\* C35 as stated: every run that has ended has made exactly one token
\* request, made it first, and sent every other request after it had
\* succeeded and with the token it gave.
C35_ExactlyOneTokenRequestFirst ==
    /\ TokenRequestFirst
    /\ pc = "done" => Cardinality(RequestsTo("token")) = 1

\* The client id and the client secret hold Latin-1 characters only.
CredentialsEncodable ==
    \A k \in { "SPOTIFY_CLIENT_ID", "SPOTIFY_CLIENT_SECRET" } :
        env[k].isNull \/ \A i \in DOMAIN env[k].val : env[k].val[i] # NonLatin1Char

\* C35 amended: a run makes at most one token request, exactly one once
\* getAccessToken has got past the credentials (all three present and
\* encodable) and none otherwise; it makes it first, and sends every other
\* request after it has succeeded and with the token it gave.
C35_TokenRequestFirst ==
    /\ TokenRequestFirst
    /\ pc \notin { "main", "catch" }
          => Cardinality(RequestsTo("token")) =
                IF SomeCredentialMissing \/ ~CredentialsEncodable THEN 0 ELSE 1

\* A run that replaced the playlist and wrote its name and description: six
\* requests, the last five with the token of the first.
C35_Witness ==
    /\ pc = "done" /\ exitCode = 0
    /\ Len(requests) = 6
    /\ requests[4].ep = "replaceTracks"
    /\ \A i \in 2..6 : requests[i].token = accessToken
    /\ ~accessToken.isNull

\* C36 as stated: a run that has exited 1 has not changed the entries of the
\* playlist on the service.
C36_Exit1ContentUnchanged ==
    exitCode = 1 => ~remoteChanged.tracks

\* C36 amended: a run that has exited 1 has changed the entries of the
\* playlist only if its replace request timed out or failed on the network
\* after it was sent, and then the entries are those of the request; a run
\* whose replace request was answered 2xx does not exit 1.
C36_Exit1ContentUnchangedUnlessInDoubt ==
    /\ (exitCode = 1 /\ remoteChanged.tracks)
          => /\ outcome["updatePlaylist"] \in { "timeout", "network" }
             /\ remoteTracks = Replaced(validTracks)
    /\ (ReplaceReply.kind = "response" /\ ReplaceReply.status \in 200..299)
          => exitCode \in { NotExited, 0 }

\* The replace request was refused with a non-2xx status: the run has exited
\* 1 and the playlist, which differs from the likes, is as it was.
C36_Witness ==
    /\ exitCode = 1
    /\ ReplaceRequests # {}
    /\ ReplaceReply.kind = "response"
    /\ ~remoteChanged.tracks
    /\ remoteTracks # Replaced(validTracks)

\* The requests sent so far to an endpoint of the playlist.
PlaylistEndpointRequests ==
    PlaylistReadRequests \cup ReplaceRequests \cup MetadataRequests

\* C37: when PLAYLIST_ID is unset, empty or blank, no request is ever sent to
\* an endpoint of the playlist; a run that has ended with a valid non-empty
\* list of likes has exited 1, one that has ended with an empty list has
\* exited 0.
C37_PlaylistNotConfigured ==
    PlaylistIdBlank
        => /\ PlaylistEndpointRequests = {}
           /\ remoteChanged = NothingChanged
           /\ (pc = "done" /\ LikesValidNonEmpty) => exitCode = 1
           /\ (pc = "done" /\ LikesReturned /\ trackUris.val = <<>>) => exitCode = 0

\* PLAYLIST_ID is one space: the likes were read, updatePlaylist was called
\* with them and refused, and the run has exited 1 after two requests.
C37_Witness ==
    /\ env.PLAYLIST_ID = Some(<<" ">>)
    /\ LikesValidNonEmpty
    /\ calls = << trackUris.val >>
    /\ outcome["getPlaylistTracks"] = "notConfigured"
    /\ outcome["updatePlaylist"] = "notConfigured"
    /\ Len(requests) = 2
    /\ pc = "done" /\ exitCode = 1

\* C38: when TRACK_COUNT is absent, empty, not numeric, zero or negative,
\* every request to the likes endpoint asks for 30 likes.
C38_DefaultLimit30 ==
    (TrackCountNotNumeric \/ TrackCountNotPositive)
        => \A i \in LikesRequests :
              requests[i].text = LimitQuery[30] /\ requests[i].count = 30

\* v is an object, neither null nor an array, with the property k.
HasProperty(v, k) == v.type = "object" /\ k \in DOMAIN v.props

\* v has a string name, a description that is absent, null, undefined or a
\* string, and a tracks object whose total is a number.
MatchesPlaylistDetails(v) ==
    /\ HasProperty(v, "name")
    /\ v.props["name"].type = "string"
    /\ HasProperty(v, "description")
          => v.props["description"].type \in { "null", "undefined", "string" }
    /\ HasProperty(v, "tracks")
    /\ HasProperty(v.props["tracks"], "total")
    /\ v.props["tracks"].props["total"].type = "number"

\* C39: isPlaylistDetails returns true exactly for the objects with a string
\* name, a description that is absent, null, undefined or a string, and a
\* tracks object whose total is a number; it returns false for null,
\* undefined, the empty object and an array.
C39_IsPlaylistDetails ==
    ~detailsValid.isNull
        => /\ detailsValid.val = MatchesPlaylistDetails(detailsData)
           /\ detailsData \in { JsNull, JsUndefined, JsArray(<<>>),
                                 DetailsObject(Absent, Absent, Absent) }
                 => detailsValid.val = FALSE

\* An object with an empty name, a null description and a total of 0 was
\* accepted.
C39_Witness ==
    /\ detailsData = DetailsObject(JsString(<<>>), JsNull, TracksObject(JsNumber(0)))
    /\ detailsValid = Some(TRUE)

====
